---- MODULE Spec2Model ----
(***************************************************************************)
(* Model of the calculation engine of the fitness calculator               *)
(* (src/lib/calculations.ts) and of the provider that holds the profile    *)
(* and the results (src/contexts/CalculatorContext.tsx).                   *)
(*                                                                         *)
(* A JavaScript number is modelled as an exact rational [n |-> , d |-> ]   *)
(* in lowest terms with d > 0, so that thresholds, clamps and equalities   *)
(* are decided exactly.  The JavaScript value `undefined` is the record    *)
(* `undefined`, `null` is the record `null`.  Only finite numbers are      *)
(* modelled: every division of the engine is applied to a non-zero         *)
(* divisor (height > 0, hips truthy).                                      *)
(***************************************************************************)
EXTENDS Integers, Sequences, FiniteSets, TLC

VARIABLES
    userData,                  \* the profile object held by the caller
    proteinPerKg,              \* the protein setting held by the caller
    calculations,              \* last calculateAllResults call, or null
    targetWeightCalculations,  \* last recalculateWithTargetWeight call, or null
    earlier,                   \* the calculateAllResults call before the last one, or null
    nCalls,                    \* number of orchestrator calls made so far
    call,                      \* a direct call of one calculator: [fn, args, ret]
    \* the remaining state of CalculatorProvider
    validationErrors,
    fieldErrors,
    isDataValid,
    measurementsOptional,
    targetWeight,              \* a string, as the sequence of its characters
    isTargetWeightEnabled,
    userDataObject,            \* which object userData is: defaultUserData or a copy
    effects,                   \* the effects scheduled by the last render, not yet run
    resetCalled                \* resetData has been called in this behaviour

engineVars == <<earlier, nCalls, call>>

providerVars == <<validationErrors, fieldErrors, isDataValid, measurementsOptional,
                  targetWeight, isTargetWeightEnabled, userDataObject, effects,
                  resetCalled>>

vars == <<userData, proteinPerKg, calculations, targetWeightCalculations,
          earlier, nCalls, call, validationErrors, fieldErrors, isDataValid,
          measurementsOptional, targetWeight, isTargetWeightEnabled,
          userDataObject, effects, resetCalled>>

undefined == [undefined |-> TRUE]
null == [null |-> TRUE]

-----------------------------------------------------------------------------
(* JavaScript numbers as exact rationals.                                  *)

Abs(i) == IF i < 0 THEN -i ELSE i

RECURSIVE GCD(_, _)
GCD(a, b) == IF b = 0 THEN a ELSE GCD(b, a % b)

LCM(a, b) == (a \div GCD(a, b)) * b

\* the rational n/d (d > 0) in lowest terms
Q(n, d) == LET g == GCD(Abs(n), d) IN [n |-> n \div g, d |-> d \div g]

\* an integer literal
N(i) == [n |-> i, d |-> 1]

Plus(a, b) ==
    LET l == LCM(a.d, b.d)
    IN  Q(a.n * (l \div a.d) + b.n * (l \div b.d), l)

Neg(a) == [n |-> -a.n, d |-> a.d]

Minus(a, b) == Plus(a, Neg(b))

Times(a, b) ==
    LET g1 == GCD(Abs(a.n), b.d)
        g2 == GCD(Abs(b.n), a.d)
    IN  [n |-> (a.n \div g1) * (b.n \div g2), d |-> (a.d \div g2) * (b.d \div g1)]

\* a / b for b # 0
Over(a, b) ==
    Times(a, IF b.n > 0 THEN [n |-> b.d, d |-> b.n] ELSE [n |-> -b.d, d |-> -b.n])

Less(a, b) ==
    LET l == LCM(a.d, b.d)
    IN  a.n * (l \div a.d) < b.n * (l \div b.d)

LessEq(a, b) == ~Less(b, a)

MathMax(a, b) == IF Less(a, b) THEN b ELSE a

MathMin(a, b) == IF Less(b, a) THEN b ELSE a

\* Math.round: the nearest integer, a half rounds towards +Infinity
MathRound(a) ==
    LET q == a.n \div a.d
        r == a.n % a.d
    IN  N(IF 2 * r >= a.d THEN q + 1 ELSE q)

\* JavaScript truthiness of an optional number: undefined and 0 are falsy
Truthy(x) == x # undefined /\ x # N(0)

-----------------------------------------------------------------------------
(* Constant tables.                                                        *)

activityMultipliers ==
    [sedentary |-> Q(12, 10)] @@
    ("light-activity" :> Q(1375, 1000)) @@
    ("moderate-activity" :> Q(155, 100)) @@
    ("high-activity" :> Q(1725, 1000)) @@
    ("very-high-activity" :> Q(19, 10))

bmiCategories == <<
    [label |-> "Underweight",   range |-> <<N(0), Q(185, 10)>>],
    [label |-> "Normal weight", range |-> <<Q(185, 10), N(25)>>],
    [label |-> "Overweight",    range |-> <<N(25), N(30)>>],
    [label |-> "Obese I",       range |-> <<N(30), N(35)>>],
    [label |-> "Obese II",      range |-> <<N(35), N(40)>>],
    [label |-> "Obese III",     range |-> <<N(40), N(100)>> ] >>

-----------------------------------------------------------------------------
(* Primary metric calculators.                                             *)

\* variant: a body fat of 0 (or below) also selects the lean-body-mass formula
calculateBMR_ZeroIsPresent(gender, weight, height, age, bodyFatPercentage) ==
    IF bodyFatPercentage # undefined
    THEN LET leanBodyMass ==
                 Times(weight, Minus(N(1), Over(bodyFatPercentage, N(100))))
         IN  Plus(N(370), Times(Q(216, 10), leanBodyMass))
    ELSE IF gender = "male"
         THEN Minus(Plus(Plus(Q(88362, 1000), Times(Q(13397, 1000), weight)),
                         Times(Q(4799, 1000), height)),
                    Times(Q(5677, 1000), age))
         ELSE Minus(Plus(Plus(Q(447593, 1000), Times(Q(9247, 1000), weight)),
                         Times(Q(3098, 1000), height)),
                    Times(Q(433, 100), age))

calculateBMR(gender, weight, height, age, bodyFatPercentage) ==
    IF bodyFatPercentage # undefined /\ Less(N(0), bodyFatPercentage)
    THEN LET leanBodyMass ==
                 Times(weight, Minus(N(1), Over(bodyFatPercentage, N(100))))
         IN  Plus(N(370), Times(Q(216, 10), leanBodyMass))
    ELSE IF gender = "male"
         THEN Minus(Plus(Plus(Q(88362, 1000), Times(Q(13397, 1000), weight)),
                         Times(Q(4799, 1000), height)),
                    Times(Q(5677, 1000), age))
         ELSE Minus(Plus(Plus(Q(447593, 1000), Times(Q(9247, 1000), weight)),
                         Times(Q(3098, 1000), height)),
                    Times(Q(433, 100), age))

calculateBMI(weight, height) ==
    LET heightInMeters == Over(height, N(100))
    IN  Over(weight, Times(heightInMeters, heightInMeters))

\* variant: the upper end of a range is inclusive (bmi <= max)
RECURSIVE getBMICategoryFrom_ClosedUpper(_, _)
getBMICategoryFrom_ClosedUpper(bmi, i) ==
    IF i < Len(bmiCategories)
    THEN LET min == bmiCategories[i + 1].range[1]
             max == bmiCategories[i + 1].range[2]
         IN  IF LessEq(min, bmi) /\ LessEq(bmi, max)
             THEN [category |-> bmiCategories[i + 1].label, categoryIndex |-> i]
             ELSE getBMICategoryFrom_ClosedUpper(bmi, i + 1)
    ELSE [category |-> bmiCategories[Len(bmiCategories)].label,
          categoryIndex |-> Len(bmiCategories) - 1]

\* the for loop of getBMICategory from index i on; categoryIndex is 0-based
RECURSIVE getBMICategoryFrom(_, _)
getBMICategoryFrom(bmi, i) ==
    IF i < Len(bmiCategories)
    THEN LET min == bmiCategories[i + 1].range[1]
             max == bmiCategories[i + 1].range[2]
         IN  IF LessEq(min, bmi) /\ Less(bmi, max)
             THEN [category |-> bmiCategories[i + 1].label, categoryIndex |-> i]
             ELSE getBMICategoryFrom(bmi, i + 1)
    ELSE [category |-> bmiCategories[Len(bmiCategories)].label,
          categoryIndex |-> Len(bmiCategories) - 1]

getBMICategory(bmi) == getBMICategoryFrom(bmi, 0)

calculateWHR(waist, hips) == Over(waist, hips)

\* variant: the first threshold is exclusive (whr < 0.85)
getWHRCategory_Strict(whr, gender) ==
    IF Less(whr, Q(85, 100))
    THEN [category |-> "Peripheral Body Type", description |-> "peripheral",
          imageIndex |-> 0]
    ELSE IF LessEq(whr, Q(9, 10))
    THEN [category |-> "Balanced Character Type", description |-> "balanced",
          imageIndex |-> 1]
    ELSE IF LessEq(whr, Q(94, 100))
    THEN [category |-> "Central Character Type", description |-> "central",
          imageIndex |-> 2]
    ELSE [category |-> "Risky Character Type", description |-> "risky",
          imageIndex |-> 3]

\* each description is the fixed text of its band, shortened to one word
getWHRCategory(whr, gender) ==
    IF LessEq(whr, Q(85, 100))
    THEN [category |-> "Peripheral Body Type", description |-> "peripheral",
          imageIndex |-> 0]
    ELSE IF LessEq(whr, Q(9, 10))
    THEN [category |-> "Balanced Character Type", description |-> "balanced",
          imageIndex |-> 1]
    ELSE IF LessEq(whr, Q(94, 100))
    THEN [category |-> "Central Character Type", description |-> "central",
          imageIndex |-> 2]
    ELSE [category |-> "Risky Character Type", description |-> "risky",
          imageIndex |-> 3]

\* variant: the value is memoized without regard to the arguments: once a
\* target-weight result exists, its tdee is returned
calculateTDEE_Memoized(bmr, activityLevel) ==
    IF targetWeightCalculations # null
    THEN targetWeightCalculations.results.tdee
    ELSE Times(bmr, activityMultipliers[activityLevel])

calculateTDEE(bmr, activityLevel) == Times(bmr, activityMultipliers[activityLevel])

-----------------------------------------------------------------------------
(* Target / range calculators.                                             *)

calculateIdealWeightRange(height) ==
    LET heightInMeters == Over(height, N(100))
        sq == Times(heightInMeters, heightInMeters)
    IN  [lower |-> Times(N(20), sq), upper |-> Times(N(24), sq),
         target |-> Times(N(22), sq)]

calculateAdonisWeightRange(height, gender) ==
    LET heightInMeters == Over(height, N(100))
        sq == Times(heightInMeters, heightInMeters)
    IN  IF gender = "male"
        THEN [lower |-> Times(N(21), sq), upper |-> Times(N(25), sq),
              target |-> Times(N(23), sq)]
        ELSE [lower |-> Times(N(20), sq), upper |-> Times(N(24), sq),
              target |-> Times(N(22), sq)]

\* variant: the adjusted BMI is used without the clamp to [18.5, 28]
calculateBodyCompAdjustedWeight_Unclamped(height, gender, bodyFatPercentage, shoulderWidth) ==
    LET heightInMeters == Over(height, N(100))
        sq == Times(heightInMeters, heightInMeters)
        baseBMI0 == IF gender = "male" THEN Q(225, 10) ELSE Q(215, 10)
        baseBMI1 ==
            IF bodyFatPercentage # undefined
            THEN LET optimalBodyFat == IF gender = "male" THEN N(15) ELSE N(23)
                     bodyFatDiff == Minus(bodyFatPercentage, optimalBodyFat)
                     bmiAdjustment == Times(Neg(bodyFatDiff), Q(1, 10))
                 IN  Plus(baseBMI0, bmiAdjustment)
            ELSE baseBMI0
        baseBMI2 ==
            IF shoulderWidth # undefined /\ gender = "male"
            THEN LET shoulderToHeightRatio == Over(shoulderWidth, height)
                     averageRatio == Q(26, 100)
                     ratioDiff == Minus(shoulderToHeightRatio, averageRatio)
                     frameAdjustment == Times(ratioDiff, N(10))
                 IN  Plus(baseBMI1, frameAdjustment)
            ELSE baseBMI1
        baseBMI == baseBMI2
    IN  [lower |-> Times(Minus(baseBMI, Q(15, 10)), sq),
         upper |-> Times(Plus(baseBMI, Q(15, 10)), sq),
         target |-> Times(baseBMI, sq)]

\* variant: a body fat of 0 (or below) is taken as absent, as calculateBMR does
calculateBodyCompAdjustedWeight_ZeroIsAbsent(height, gender, bodyFatPercentage, shoulderWidth) ==
    LET heightInMeters == Over(height, N(100))
        sq == Times(heightInMeters, heightInMeters)
        baseBMI0 == IF gender = "male" THEN Q(225, 10) ELSE Q(215, 10)
        baseBMI1 ==
            IF bodyFatPercentage # undefined /\ Less(N(0), bodyFatPercentage)
            THEN LET optimalBodyFat == IF gender = "male" THEN N(15) ELSE N(23)
                     bodyFatDiff == Minus(bodyFatPercentage, optimalBodyFat)
                     bmiAdjustment == Times(Neg(bodyFatDiff), Q(1, 10))
                 IN  Plus(baseBMI0, bmiAdjustment)
            ELSE baseBMI0
        baseBMI2 ==
            IF shoulderWidth # undefined /\ gender = "male"
            THEN LET shoulderToHeightRatio == Over(shoulderWidth, height)
                     averageRatio == Q(26, 100)
                     ratioDiff == Minus(shoulderToHeightRatio, averageRatio)
                     frameAdjustment == Times(ratioDiff, N(10))
                 IN  Plus(baseBMI1, frameAdjustment)
            ELSE baseBMI1
        baseBMI == MathMax(Q(185, 10), MathMin(N(28), baseBMI2))
    IN  [lower |-> Times(Minus(baseBMI, Q(15, 10)), sq),
         upper |-> Times(Plus(baseBMI, Q(15, 10)), sq),
         target |-> Times(baseBMI, sq)]

calculateBodyCompAdjustedWeight(height, gender, bodyFatPercentage, shoulderWidth) ==
    LET heightInMeters == Over(height, N(100))
        sq == Times(heightInMeters, heightInMeters)
        baseBMI0 == IF gender = "male" THEN Q(225, 10) ELSE Q(215, 10)
        baseBMI1 ==
            IF bodyFatPercentage # undefined
            THEN LET optimalBodyFat == IF gender = "male" THEN N(15) ELSE N(23)
                     bodyFatDiff == Minus(bodyFatPercentage, optimalBodyFat)
                     bmiAdjustment == Times(Neg(bodyFatDiff), Q(1, 10))
                 IN  Plus(baseBMI0, bmiAdjustment)
            ELSE baseBMI0
        baseBMI2 ==
            IF shoulderWidth # undefined /\ gender = "male"
            THEN LET shoulderToHeightRatio == Over(shoulderWidth, height)
                     averageRatio == Q(26, 100)
                     ratioDiff == Minus(shoulderToHeightRatio, averageRatio)
                     frameAdjustment == Times(ratioDiff, N(10))
                 IN  Plus(baseBMI1, frameAdjustment)
            ELSE baseBMI1
        baseBMI == MathMax(Q(185, 10), MathMin(N(28), baseBMI2))
    IN  [lower |-> Times(Minus(baseBMI, Q(15, 10)), sq),
         upper |-> Times(Plus(baseBMI, Q(15, 10)), sq),
         target |-> Times(baseBMI, sq)]

\* variant: the ratio is 0.5 for men and 0.45 for women
calculateIdealWaistSize_GenderSpecific(heightInCm, gender) ==
    Times(heightInCm, IF gender = "male" THEN Q(5, 10) ELSE Q(45, 100))

calculateIdealWaistSize(heightInCm, gender) == Times(heightInCm, Q(5, 10))

\* variant: the ideal-weight target is returned
calculateBestTargetWeight_IdealOnly(idealWeightRange, bodyCompAdjustedWeight) ==
    idealWeightRange.target

\* the orchestrator always passes a body-comp range, so the parameter may be
\* undefined only for other callers
calculateBestTargetWeight(idealWeightRange, bodyCompAdjustedWeight) ==
    IF bodyCompAdjustedWeight # undefined
    THEN bodyCompAdjustedWeight.target
    ELSE idealWeightRange.target

-----------------------------------------------------------------------------
(* Safety and deficit policy.                                              *)

\* variant: the size adjustment is left out
calculateSafeMinimumCalories_NoSizeAdjustment(gender, weight) ==
    LET baseMale == N(1500)
        baseFemale == N(1200)
    IN  IF gender = "male"
        THEN MathMax(baseMale, N(1400))
        ELSE MathMax(baseFemale, N(1100))

\* variant: the size adjustment is taken with its sign, so that it lowers the
\* minimum below 70 kg
calculateSafeMinimumCalories_SignedAdjustment(gender, weight) ==
    LET baseMale == N(1500)
        baseFemale == N(1200)
        sizeAdjustment == Times(Minus(weight, N(70)), N(5))
    IN  IF gender = "male"
        THEN MathMax(Plus(baseMale, sizeAdjustment), N(1400))
        ELSE MathMax(Plus(baseFemale, sizeAdjustment), N(1100))

calculateSafeMinimumCalories(gender, weight) ==
    LET baseMale == N(1500)
        baseFemale == N(1200)
        sizeAdjustment == MathMax(N(0), Times(Minus(weight, N(70)), N(5)))
    IN  IF gender = "male"
        THEN MathMax(Plus(baseMale, sizeAdjustment), N(1400))
        ELSE MathMax(Plus(baseFemale, sizeAdjustment), N(1100))

\* variant: the floor is 80% of BMR instead of 90%
ensureAboveBMR_LowFloor(calories, bmr) ==
    LET minimumSafeBMR == Times(bmr, Q(8, 10))
    IN  MathMax(calories, minimumSafeBMR)

ensureAboveBMR(calories, bmr) ==
    LET minimumSafeBMR == Times(bmr, Q(9, 10))
    IN  MathMax(calories, minimumSafeBMR)

\* variant: the percentage result is returned without the [500, 1000] clamp
calculateSafeDeficit_Unclamped(bmi, tdee) ==
    LET deficitPercentage ==
            IF Less(bmi, Q(185, 10)) THEN Q(5, 100)
            ELSE IF Less(bmi, N(25)) THEN Q(15, 100)
            ELSE IF Less(bmi, N(30)) THEN Q(2, 10)
            ELSE IF Less(bmi, N(35)) THEN Q(25, 100)
            ELSE Q(3, 10)
    IN  MathRound(Times(tdee, deficitPercentage))

\* variant: the lower clamp is 400
calculateSafeDeficit_LowMinimum(bmi, tdee) ==
    LET deficitPercentage ==
            IF Less(bmi, Q(185, 10)) THEN Q(5, 100)
            ELSE IF Less(bmi, N(25)) THEN Q(15, 100)
            ELSE IF Less(bmi, N(30)) THEN Q(2, 10)
            ELSE IF Less(bmi, N(35)) THEN Q(25, 100)
            ELSE Q(3, 10)
        percentageDeficit == MathRound(Times(tdee, deficitPercentage))
        minDeficit == N(400)
        maxDeficit == N(1000)
    IN  MathMax(minDeficit, MathMin(maxDeficit, percentageDeficit))

\* variant: the lower clamp is left out
calculateSafeDeficit_NoMinimum(bmi, tdee) ==
    LET deficitPercentage ==
            IF Less(bmi, Q(185, 10)) THEN Q(5, 100)
            ELSE IF Less(bmi, N(25)) THEN Q(15, 100)
            ELSE IF Less(bmi, N(30)) THEN Q(2, 10)
            ELSE IF Less(bmi, N(35)) THEN Q(25, 100)
            ELSE Q(3, 10)
        percentageDeficit == MathRound(Times(tdee, deficitPercentage))
        maxDeficit == N(1000)
    IN  MathMin(maxDeficit, percentageDeficit)

calculateSafeDeficit(bmi, tdee) ==
    LET deficitPercentage ==
            IF Less(bmi, Q(185, 10)) THEN Q(5, 100)
            ELSE IF Less(bmi, N(25)) THEN Q(15, 100)
            ELSE IF Less(bmi, N(30)) THEN Q(2, 10)
            ELSE IF Less(bmi, N(35)) THEN Q(25, 100)
            ELSE Q(3, 10)
        percentageDeficit == MathRound(Times(tdee, deficitPercentage))
        minDeficit == N(500)
        maxDeficit == N(1000)
    IN  MathMax(minDeficit, MathMin(maxDeficit, percentageDeficit))

-----------------------------------------------------------------------------
(* Calorie / macro aggregator.                                             *)

\* variant: slowLoss is stored without the BMR floor
calculateCalorieTargets_NoBmrFloor(tdee, gender, weight, bmi, bmr) ==
    LET safeDeficit == calculateSafeDeficit(bmi, tdee)
        minCalories == calculateSafeMinimumCalories(gender, weight)
        rapidLoss == MathMax(minCalories, Minus(tdee, safeDeficit))
        slowLoss == MathMax(minCalories,
                            Minus(tdee, MathMin(N(400), Times(safeDeficit, Q(8, 10)))))
    IN  [maintenance |-> tdee,
         rapidLoss |-> ensureAboveBMR(rapidLoss, bmr),
         slowLoss |-> slowLoss,
         muscleGain |-> Plus(tdee, N(300))]

calculateCalorieTargets(tdee, gender, weight, bmi, bmr) ==
    LET safeDeficit == calculateSafeDeficit(bmi, tdee)
        minCalories == calculateSafeMinimumCalories(gender, weight)
        rapidLoss == MathMax(minCalories, Minus(tdee, safeDeficit))
        slowLoss == MathMax(minCalories,
                            Minus(tdee, MathMin(N(400), Times(safeDeficit, Q(8, 10)))))
    IN  [maintenance |-> tdee,
         rapidLoss |-> ensureAboveBMR(rapidLoss, bmr),
         slowLoss |-> ensureAboveBMR(slowLoss, bmr),
         muscleGain |-> Plus(tdee, N(300))]

\* variant: the kilogram constant 7700 is used
calculateWeeklyFatLoss_PerKg(calorieDeficit) == Over(Times(calorieDeficit, N(7)), N(7700))

calculateWeeklyFatLoss(calorieDeficit) == Over(Times(calorieDeficit, N(7)), N(3500))

calculateWaterWeightFluctuation(weight) == Times(weight, Q(15, 1000))

calculateProteinIntakePerKg(targetWeightKg, gramsPerKg) == Times(targetWeightKg, gramsPerKg)

calculateProteinIntakePerLb(targetWeightLbs, gramsPerLb) == Times(targetWeightLbs, gramsPerLb)

calculateProteinIntake(targetWeightArg, gramsPerKg) == Times(targetWeightArg, gramsPerKg)

\* variant: the fixed deficit of 700 calories
calculateRapidWeightLossCalories_Fixed700(tdee, gender, weight, bmi, bmr) ==
    LET minCalories == calculateSafeMinimumCalories(gender, weight)
        rapidCalories == MathMax(minCalories, Minus(tdee, N(700)))
    IN  ensureAboveBMR(rapidCalories, bmr)

\* variant: the BMR floor is left out
calculateRapidWeightLossCalories_NoBmrFloor(tdee, gender, weight, bmi, bmr) ==
    LET safeDeficit == calculateSafeDeficit(bmi, tdee)
        minCalories == calculateSafeMinimumCalories(gender, weight)
    IN  MathMax(minCalories, Minus(tdee, safeDeficit))

calculateRapidWeightLossCalories(tdee, gender, weight, bmi, bmr) ==
    LET safeDeficit == calculateSafeDeficit(bmi, tdee)
        minCalories == calculateSafeMinimumCalories(gender, weight)
        rapidCalories == MathMax(minCalories, Minus(tdee, safeDeficit))
    IN  ensureAboveBMR(rapidCalories, bmr)

\* variant: the size/gender minimum is skipped
calculateSustainableWeightLossCalories_NoMinimum(tdee, gender, weight, bmi, bmr) ==
    LET safeDeficit == calculateSafeDeficit(bmi, tdee)
        sustainableDeficit == MathMin(N(400), Times(safeDeficit, Q(8, 10)))
    IN  ensureAboveBMR(Minus(tdee, sustainableDeficit), bmr)

calculateSustainableWeightLossCalories(tdee, gender, weight, bmi, bmr) ==
    LET safeDeficit == calculateSafeDeficit(bmi, tdee)
        minCalories == calculateSafeMinimumCalories(gender, weight)
        sustainableDeficit == MathMin(N(400), Times(safeDeficit, Q(8, 10)))
        sustainableCalories == MathMax(minCalories, Minus(tdee, sustainableDeficit))
    IN  ensureAboveBMR(sustainableCalories, bmr)

\* variant: the pound constant 3500 is used
calculateMaxWeeklyFatLoss_PerPound(rapidCalorieDeficit) ==
    Over(Times(rapidCalorieDeficit, N(7)), N(3500))

calculateMaxWeeklyFatLoss(rapidCalorieDeficit) ==
    Over(Times(rapidCalorieDeficit, N(7)), N(7700))

calculateSustainableWeeklyFatLoss(sustainableCalorieDeficit) ==
    Over(Times(sustainableCalorieDeficit, N(7)), N(7700))

\* variant: the per-kg path is taken whatever the flag
calculateProteinIntakeForTarget_PerKg(targetWeightKg, proteinSetting, isPerPound) ==
    calculateProteinIntakePerKg(targetWeightKg, proteinSetting)

calculateProteinIntakeForTarget(targetWeightKg, proteinSetting, isPerPound) ==
    IF isPerPound
    THEN LET targetWeightLbs == Times(targetWeightKg, Q(220462, 100000))
         IN  calculateProteinIntakePerLb(targetWeightLbs, proteinSetting)
    ELSE calculateProteinIntakePerKg(targetWeightKg, proteinSetting)

-----------------------------------------------------------------------------
(* Top-level orchestrator.                                                 *)

\* variant: only waist is tested; waist / undefined is NaN, and NaN fails every
\* comparison of getWHRCategory
calculateAllResultsWhr_WaistOnly(data) ==
    IF Truthy(data.measurements.waist)
    THEN IF Truthy(data.measurements.hips)
         THEN LET whrValue == calculateWHR(data.measurements.waist,
                                           data.measurements.hips)
                  whrCategory == getWHRCategory(whrValue, data.gender)
              IN  [value |-> whrValue,
                   category |-> whrCategory.category,
                   description |-> whrCategory.description,
                   imageIndex |-> whrCategory.imageIndex]
         ELSE [value |-> [nan |-> TRUE],
               category |-> "Risky Character Type",
               description |-> "risky",
               imageIndex |-> 3]
    ELSE undefined

\* the whr block of calculateAllResults: let whr = undefined; if (waist && hips) ...
calculateAllResultsWhr(data) ==
    IF Truthy(data.measurements.waist) /\ Truthy(data.measurements.hips)
    THEN LET whrValue == calculateWHR(data.measurements.waist,
                                      data.measurements.hips)
             whrCategory == getWHRCategory(whrValue, data.gender)
         IN  [value |-> whrValue,
              category |-> whrCategory.category,
              description |-> whrCategory.description,
              imageIndex |-> whrCategory.imageIndex]
    ELSE undefined

\* data.measurements always holds its four fields, each possibly undefined
\* (measurements?.waist of a missing measurements object is undefined too);
\* calculateProteinIntakeForTarget is called without isPerPound, which
\* defaults to true
calculateAllResults(data, protein) ==
    LET bmr == calculateBMR(data.gender, data.weight, data.height, data.age,
                            data.bodyFat)
        bmiValue == calculateBMI(data.weight, data.height)
        bmiData == getBMICategory(bmiValue)
        tdee == calculateTDEE(bmr, data.activityLevel)
        idealWeightRange == calculateIdealWeightRange(data.height)
        adonisWeightRange == calculateAdonisWeightRange(data.height, data.gender)
        bodyCompAdjustedWeight ==
            calculateBodyCompAdjustedWeight(data.height, data.gender, data.bodyFat,
                                            data.measurements.shoulders)
        calorieTargets ==
            calculateCalorieTargets(tdee, data.gender, data.weight, bmiValue, bmr)
        whr == calculateAllResultsWhr(data)
        idealWaistSize == calculateIdealWaistSize(data.height, data.gender)
        bestTargetWeight ==
            calculateBestTargetWeight(idealWeightRange, bodyCompAdjustedWeight)
        rapidWeightLossCalories ==
            calculateRapidWeightLossCalories(tdee, data.gender, data.weight,
                                             bmiValue, bmr)
        sustainableWeightLossCalories ==
            calculateSustainableWeightLossCalories(tdee, data.gender, data.weight,
                                                   bmiValue, bmr)
        safeDeficit == calculateSafeDeficit(bmiValue, tdee)
        maxWeeklyFatLoss == calculateMaxWeeklyFatLoss(safeDeficit)
        sustainableWeeklyFatLoss ==
            calculateSustainableWeeklyFatLoss(
                MathMin(N(400), Times(safeDeficit, Q(8, 10))))
        proteinIntakeForTarget ==
            calculateProteinIntakeForTarget(bestTargetWeight, protein, TRUE)
    IN  [bmr |-> bmr,
         bmi |-> [value |-> bmiValue, category |-> bmiData.category,
                  categoryIndex |-> bmiData.categoryIndex],
         whr |-> whr,
         tdee |-> tdee,
         idealWeightRange |-> idealWeightRange,
         adonisWeightRange |-> adonisWeightRange,
         bodyCompAdjustedWeight |-> bodyCompAdjustedWeight,
         calorieTargets |-> calorieTargets,
         weeklyFatLoss |-> [rapid |-> calculateWeeklyFatLoss(N(700)),
                            slow |-> calculateWeeklyFatLoss(N(400))],
         waterWeightFluctuation |-> calculateWaterWeightFluctuation(data.weight),
         proteinIntake |-> calculateProteinIntake(idealWeightRange.target, protein),
         goalRecommendations |->
             [idealWaistSize |-> idealWaistSize,
              bestTargetWeight |-> bestTargetWeight,
              rapidWeightLossCalories |-> rapidWeightLossCalories,
              sustainableWeightLossCalories |-> sustainableWeightLossCalories,
              maxWeeklyFatLoss |-> maxWeeklyFatLoss,
              sustainableWeeklyFatLoss |-> sustainableWeeklyFatLoss,
              proteinIntakeForTarget |-> proteinIntakeForTarget]]

\* variant: the results are computed from the profile as passed, the target
\* weight is dropped
recalculateWithTargetWeight_IgnoresTarget(data, targetWeightKg, protein) ==
    [userData |-> data, results |-> calculateAllResults(data, protein)]

\* { ...userData, weight: targetWeightKg } builds a new object; the object the
\* caller passed is returned beside the results so that its state after the
\* call is part of the model
recalculateWithTargetWeight(data, targetWeightKg, protein) ==
    LET modifiedUserData == [data EXCEPT !.weight = targetWeightKg]
    IN  [userData |-> data,
         results |-> calculateAllResults(modifiedUserData, protein)]

-----------------------------------------------------------------------------
(* Validation.                                                             *)

\* x < min || x > max for a field that is !== undefined
outOfRange(x, min, max) == x # undefined /\ (Less(x, min) \/ Less(max, x))

\* variant: hips above 219 fail, so the boundary value 220 is rejected
validateUserDataFieldErrors_HipsStrict(data) ==
    LET m == data.measurements
        failing ==
            {f \in {"age"} : outOfRange(data.age, N(10), N(120))} \cup
            {f \in {"weight"} : outOfRange(data.weight, N(10), N(227))} \cup
            {f \in {"height"} : outOfRange(data.height, N(50), N(250))} \cup
            {f \in {"bodyFat"} : outOfRange(data.bodyFat, N(5), N(45))} \cup
            {f \in {"waist"} : outOfRange(m.waist, N(30), N(200))} \cup
            {f \in {"hips"} : outOfRange(m.hips, N(40), N(219))} \cup
            {f \in {"neck"} : outOfRange(m.neck, N(20), N(60))} \cup
            {f \in {"shoulders"} : outOfRange(m.shoulders, N(30), N(130))}
        error ==
            [age |-> "Age must be between 10 and 120 years",
             weight |-> "Weight must be between 10 and 227 kg (500 lbs)",
             height |-> "Height must be between 50 and 250 cm",
             bodyFat |-> "Body fat percentage must be between 5% and 45%",
             waist |-> "Waist circumference must be between 30 and 200 cm",
             hips |-> "Hips circumference must be between 40 and 220 cm",
             neck |-> "Neck circumference must be between 20 and 60 cm",
             shoulders |-> "Shoulder circumference must be between 30 and 130 cm"]
    IN  [f \in failing |-> error[f]]

\* the fieldErrors object built by validateUserData: a key for each field that
\* failed its check, holding the message of the field
validateUserDataFieldErrors(data) ==
    LET m == data.measurements
        failing ==
            {f \in {"age"} : outOfRange(data.age, N(10), N(120))} \cup
            {f \in {"weight"} : outOfRange(data.weight, N(10), N(227))} \cup
            {f \in {"height"} : outOfRange(data.height, N(50), N(250))} \cup
            {f \in {"bodyFat"} : outOfRange(data.bodyFat, N(5), N(45))} \cup
            {f \in {"waist"} : outOfRange(m.waist, N(30), N(200))} \cup
            {f \in {"hips"} : outOfRange(m.hips, N(40), N(220))} \cup
            {f \in {"neck"} : outOfRange(m.neck, N(20), N(60))} \cup
            {f \in {"shoulders"} : outOfRange(m.shoulders, N(30), N(130))}
        error ==
            [age |-> "Age must be between 10 and 120 years",
             weight |-> "Weight must be between 10 and 227 kg (500 lbs)",
             height |-> "Height must be between 50 and 250 cm",
             bodyFat |-> "Body fat percentage must be between 5% and 45%",
             waist |-> "Waist circumference must be between 30 and 200 cm",
             hips |-> "Hips circumference must be between 40 and 220 cm",
             neck |-> "Neck circumference must be between 20 and 60 cm",
             shoulders |-> "Shoulder circumference must be between 30 and 130 cm"]
    IN  [f \in failing |-> error[f]]

\* variant: a circumference message is pushed whatever the flag
validateUserDataErrors_FlagIgnored(recorded, optional) ==
    LET push(f) == IF f \in DOMAIN recorded THEN <<recorded[f]>> ELSE <<>>
    IN  push("age") \o push("weight") \o push("height") \o push("bodyFat")
            \o push("waist") \o push("hips") \o push("neck") \o push("shoulders")

\* the errors array built by validateUserData, in the order of the checks: the
\* message of a failed field is pushed, for a circumference only when
\* measurementsOptional is true
validateUserDataErrors(recorded, optional) ==
    LET push(f) == IF f \in DOMAIN recorded THEN <<recorded[f]>> ELSE <<>>
        pushIf(f) == IF optional THEN push(f) ELSE <<>>
    IN  push("age") \o push("weight") \o push("height") \o push("bodyFat")
            \o pushIf("waist") \o pushIf("hips") \o pushIf("neck")
            \o pushIf("shoulders")

validateUserData(data, optional) ==
    LET recorded == validateUserDataFieldErrors(data)
        errors == validateUserDataErrors(recorded, optional)
    IN  [isValid |-> Len(errors) = 0, errors |-> errors, fieldErrors |-> recorded]

Digits == <<"0", "1", "2", "3", "4", "5", "6", "7", "8", "9">>

IsDigit(c) == \E i \in DOMAIN Digits : Digits[i] = c

DigitValue(c) == (CHOOSE i \in DOMAIN Digits : Digits[i] = c) - 1

\* the decimal digits of a natural number
RECURSIVE NatToString(_)
NatToString(i) ==
    IF i < 10 THEN <<Digits[i + 1]>>
    ELSE NatToString(i \div 10) \o <<Digits[(i % 10) + 1]>>

\* Number.prototype.toString of a non-negative number with at most one decimal
toString(x) ==
    IF x.d = 1 THEN NatToString(x.n)
    ELSE NatToString(x.n \div x.d) \o <<".">>
             \o NatToString(((x.n % x.d) * 10) \div x.d)

\* the value of a run of digits read after the value acc
RECURSIVE DigitsValue(_, _)
DigitsValue(str, acc) ==
    IF str = <<>> \/ ~IsDigit(Head(str)) THEN acc
    ELSE DigitsValue(Tail(str), 10 * acc + DigitValue(Head(str)))

\* the leading digits of a string
RECURSIVE LeadingDigits(_)
LeadingDigits(str) ==
    IF str = <<>> \/ ~IsDigit(Head(str)) THEN <<>>
    ELSE <<Head(str)>> \o LeadingDigits(Tail(str))

RECURSIVE Power10(_)
Power10(k) == IF k = 0 THEN 1 ELSE 10 * Power10(k - 1)

\* parseFloat of an unsigned decimal string: the digits, then optionally a
\* point and more digits; the empty string is NaN, and so is every string
\* used here that does not start with a digit
parseFloat(str) ==
    LET whole == LeadingDigits(str)
        rest == SubSeq(str, Len(whole) + 1, Len(str))
        fraction == IF rest # <<>> /\ Head(rest) = "."
                    THEN LeadingDigits(Tail(rest))
                    ELSE <<>>
    IN  IF whole = <<>> THEN [nan |-> TRUE]
        ELSE Q(DigitsValue(whole \o fraction, 0), Power10(Len(fraction)))

\* the provider passes its targetWeight string
convertTargetWeightToKg(targetWeightArg, unitSystem) ==
    LET targetValue == parseFloat(targetWeightArg)
    IN  IF unitSystem = "imperial"
        THEN Over(targetValue, Q(220462, 100000))
        ELSE targetValue

-----------------------------------------------------------------------------
(* The goal page (src/app/goal/page.tsx).  getCalorieTarget reads the      *)
(* provider's userData, calculations, targetWeight and                     *)
(* isTargetWeightEnabled and the page's selectedGoal; they are its         *)
(* parameters here.                                                        *)

\* a target weight that is empty, not a number or not positive falls back to
\* the current weight
getTargetWeightInKg(targetWeightArg, data) ==
    LET targetValue == parseFloat(IF targetWeightArg # <<>> THEN targetWeightArg
                                  ELSE <<"0">>)
    IN  IF targetValue = [nan |-> TRUE] \/ LessEq(targetValue, N(0))
        THEN data.weight
        ELSE IF data.unitSystem = "imperial"
        THEN Over(targetValue, Q(220462, 100000))
        ELSE targetValue

getCalorieTarget(selectedGoal, enabled, targetWeightArg, data, currentCalculations) ==
    IF currentCalculations = null THEN N(2000)
    ELSE IF selectedGoal = "lose-weight"
    THEN IF enabled /\ targetWeightArg # <<>>
         THEN LET currentWeightKg == data.weight
                  targetWeightKg == getTargetWeightInKg(targetWeightArg, data)
                  weightDifference == Minus(currentWeightKg, targetWeightKg)
                  lossCalories == currentCalculations.calorieTargets.slowLoss
              IN  IF Less(N(0), weightDifference)
                  THEN LET additionalDeficit ==
                               MathMin(N(200),
                                       Times(Over(weightDifference, N(10)), N(35)))
                           minCalories == currentCalculations.bmr
                       IN  MathMax(Minus(lossCalories, additionalDeficit), minCalories)
                  ELSE lossCalories
         ELSE currentCalculations.calorieTargets.slowLoss
    ELSE IF selectedGoal = "gain-muscles"
    THEN IF enabled /\ targetWeightArg # <<>>
         THEN LET currentWeightKg == data.weight
                  targetWeightKg == getTargetWeightInKg(targetWeightArg, data)
                  weightDifference == Minus(targetWeightKg, currentWeightKg)
                  gainCalories == currentCalculations.calorieTargets.muscleGain
              IN  IF Less(N(0), weightDifference)
                  THEN LET additionalCalories ==
                               MathMin(N(300),
                                       Times(Over(weightDifference, N(10)), N(75)))
                       IN  Plus(gainCalories, additionalCalories)
                  ELSE gainCalories
         ELSE currentCalculations.calorieTargets.muscleGain
    ELSE currentCalculations.calorieTargets.maintenance

-----------------------------------------------------------------------------
(* Bounds of the model and the inputs drawn within them.                   *)

MaxCalls == 3            \* orchestrator calls in one behaviour
MaxBmi == 60             \* calculateSafeDeficit: bmi in 0 .. MaxBmi, in halves
MinTdee == 500           \* calculateSafeDeficit: tdee in MinTdee .. MaxTdee
MaxTdee == 6000
TdeeStep == 50
MaxBmiCategoryArg == 101 \* getBMICategory: bmi in -1 .. MaxBmiCategoryArg, in halves
MinWhrHundredths == 40   \* getWHRCategory: whr in 0.40 .. 1.10, in hundredths
MaxWhrHundredths == 110

Genders == {"male", "female"}
UnitSystems == {"metric", "imperial"}
ActivityLevels == DOMAIN activityMultipliers
Ages == {N(30), N(45)}
Heights == {N(160), N(180)}
Weights == {N(45), N(65), N(80), N(120)}
BodyFats == {undefined, N(0), N(15), N(35)}
Waists == {undefined, N(0), N(80), N(92)}
Hips == {undefined, N(0), N(100)}
Shoulders == {undefined, N(45), N(54)}
ProteinSettings == {Q(8, 10), N(1)}
TargetWeights == {N(65), N(80)}

noMeasurements ==
    [waist |-> undefined, hips |-> undefined, neck |-> undefined,
     shoulders |-> undefined]

defaultUserData ==
    [gender |-> "female", unitSystem |-> "imperial", age |-> N(25),
     height |-> N(170), weight |-> N(70), activityLevel |-> "moderate-activity",
     bodyFat |-> undefined, measurements |-> noMeasurements]

\* profiles varying the body fields, without measurements
BodyProfiles ==
    {[gender |-> g, unitSystem |-> "metric", age |-> a, height |-> h, weight |-> w,
      activityLevel |-> l, bodyFat |-> f, measurements |-> noMeasurements] :
        g \in Genders, a \in Ages, h \in Heights, w \in Weights,
        l \in ActivityLevels, f \in BodyFats}

\* profiles varying the measurements and the unit system
MeasurementProfiles ==
    {[gender |-> g, unitSystem |-> u, age |-> N(30), height |-> N(180),
      weight |-> N(80), activityLevel |-> "moderate-activity", bodyFat |-> undefined,
      measurements |-> [waist |-> wa, hips |-> hi, neck |-> undefined,
                        shoulders |-> sh]] :
        g \in Genders, u \in UnitSystems, wa \in Waists, hi \in Hips,
        sh \in Shoulders}

Profiles == BodyProfiles \cup MeasurementProfiles \cup {defaultUserData}

BmiArgs == {Q(i, 2) : i \in 0..(2 * MaxBmi)}
TdeeArgs ==
    {N(MinTdee + TdeeStep * i) : i \in 0..((MaxTdee - MinTdee) \div TdeeStep)}
        \cup {Q(28731, 10), Q(33297, 10), Q(33303, 10)}
BmiCategoryArgs == {Q(i, 2) : i \in (-2)..(2 * MaxBmiCategoryArg)}
WhrArgs == {Q(i, 100) : i \in MinWhrHundredths..MaxWhrHundredths}
CalorieArgs == {N(-500), N(0), N(900), N(1200), Q(16683, 10), N(2250), N(4000)}
BmrArgs == {N(1), N(1000), Q(12345, 10), Q(1853602, 1000), N(2500)}
TargetTdees == {N(1200), N(1500), N(1800), N(2000), Q(28731, 10), N(3500), N(5000)}
TargetBmis == {N(17), N(22), N(27), N(32), N(40)}
TargetBmrs == {N(1000), Q(16336, 10), N(2000), N(2500)}
TargetArgWeights == {N(50), N(70), N(90), N(150)}
BmrBodyFats == {undefined, N(-5), N(0), N(15), N(35)}
BodyCompHeights == {N(150), N(160), N(180), N(200)}
BodyCompBodyFats == {undefined, N(-50), N(0), N(5), N(15), N(23), N(45), N(90)}
BodyCompShoulders == {undefined, N(30), N(45), Q(468, 10), N(54), N(130)}
WaistHeights == {N(150), Q(331, 2), N(170), N(180), N(200)}
WaistGenders == {"male", "female", "other"}
SafeMinimumWeights ==
    {N(-20), N(0), N(10), N(45), Q(139, 2), N(70), Q(141, 2), Q(701, 10), N(90),
     N(150), N(227), N(300)}
SafeMinimumGenders == {"male", "female", "other"}

\* validateUserData: each field absent, just outside, on and inside its bounds
ValidationAges == {undefined, N(9), N(10), N(120), N(121)}
ValidationWeights == {undefined, N(9), N(10), N(227), N(228)}
ValidationHeights == {undefined, N(49), N(50), N(250), N(251)}
ValidationBodyFats == {undefined, N(4), N(5), N(45), N(46)}
ValidationWaists == {undefined, N(29), N(30), N(200), N(201)}
ValidationHips == {undefined, N(39), N(40), N(220), N(221)}
ValidationNecks == {undefined, N(19), N(20), N(60), N(61)}
ValidationShoulders == {undefined, N(29), N(30), N(130), N(131)}

\* Partial<UserData> objects: the body fields vary, or the circumferences
\* vary, or one body field and one circumference vary together
ValidationProfiles ==
    {[defaultUserData EXCEPT !.age = a, !.weight = w, !.height = h, !.bodyFat = f] :
        a \in ValidationAges, w \in ValidationWeights, h \in ValidationHeights,
        f \in ValidationBodyFats}
    \cup
    {[defaultUserData EXCEPT !.measurements =
          [waist |-> wa, hips |-> hi, neck |-> ne, shoulders |-> sh]] :
        wa \in ValidationWaists, hi \in ValidationHips, ne \in ValidationNecks,
        sh \in ValidationShoulders}
    \cup
    {[defaultUserData EXCEPT !.age = a, !.bodyFat = f,
          !.measurements = [noMeasurements EXCEPT !.waist = wa, !.neck = ne]] :
        a \in ValidationAges, f \in ValidationBodyFats, wa \in ValidationWaists,
        ne \in ValidationNecks}

\* getCalorieTarget: the goals of the page, and target weights that are empty,
\* zero, not a number, below, equal to and above the current weights
SelectedGoals == {"lose-weight", "gain-muscles", "stay-fit"}
GoalTargetWeights ==
    {<<>>, <<"0">>, <<"x">>, <<"4", "0">>, <<"6", "5", ".", "5">>, <<"8", "0">>,
     <<"1", "2", "0">>}
GoalProfiles ==
    {[gender |-> g, unitSystem |-> "metric", age |-> N(30), height |-> N(160),
      weight |-> w, activityLevel |-> l, bodyFat |-> undefined,
      measurements |-> noMeasurements] :
        g \in Genders, w \in {N(45), N(80), N(120)},
        l \in {"sedentary", "moderate-activity"}}
    \cup
    {[gender |-> "female", unitSystem |-> "imperial", age |-> N(30),
      height |-> N(160), weight |-> N(120), activityLevel |-> "sedentary",
      bodyFat |-> undefined, measurements |-> noMeasurements]}

-----------------------------------------------------------------------------
(* The calls.  A behaviour is either one direct call of a calculator, with  *)
(* its arguments drawn in Init, or up to MaxCalls calls of the two          *)
(* entry points on a profile drawn in Init.                                 *)

pending == [pending |-> TRUE]

NoCall == [fn |-> "none", args |-> <<>>, ret |-> undefined]

Pending(fn, args) == [fn |-> fn, args |-> args, ret |-> pending]

IsPending(fn) == call.fn = fn /\ call.ret = pending

Done(fn) == call.fn = fn /\ call.ret # pending

\* the target weight string the provider is constructed with and reset to
initialTargetWeight ==
    IF defaultUserData.unitSystem = "imperial"
    THEN toString(MathRound(Times(defaultUserData.weight, Q(220462, 100000))))
    ELSE toString(Over(MathRound(Times(defaultUserData.weight, N(10))), N(10)))

\* the useState initial values of CalculatorProvider other than userData,
\* proteinPerKg and the two results
ProviderConstructed ==
    /\ validationErrors = <<>>
    /\ fieldErrors = <<>>
    /\ isDataValid = TRUE
    /\ measurementsOptional = TRUE
    /\ targetWeight = initialTargetWeight
    /\ isTargetWeightEnabled = TRUE
    /\ resetCalled = FALSE

\* the engine called directly: no provider is mounted, no effect is scheduled
Init ==
    /\ calculations = null
    /\ targetWeightCalculations = null
    /\ earlier = null
    /\ nCalls = 0
    /\ ProviderConstructed
    /\ effects = {}
    /\ \/ /\ call = NoCall
          /\ userData \in Profiles
          /\ proteinPerKg \in ProteinSettings
       \/ /\ userData = defaultUserData
          /\ proteinPerKg = N(1)
          /\ \/ \E b \in BmiArgs, t \in TdeeArgs :
                    call = Pending("calculateSafeDeficit", <<b, t>>)
             \/ \E c \in CalorieArgs, b \in BmrArgs :
                    call = Pending("ensureAboveBMR", <<c, b>>)
             \/ \E t \in TargetTdees, g \in Genders, w \in TargetArgWeights,
                   b \in TargetBmis, r \in TargetBmrs :
                    call = Pending("calculateCalorieTargets", <<t, g, w, b, r>>)
             \/ \E g \in Genders, w \in Weights, h \in Heights, a \in Ages,
                   f \in BmrBodyFats :
                    call = Pending("calculateBMR", <<g, w, h, a, f>>)
             \/ \E b \in BmiCategoryArgs :
                    call = Pending("getBMICategory", <<b>>)
             \/ \E r \in WhrArgs, g \in Genders :
                    call = Pending("getWHRCategory", <<r, g>>)
             \/ \E d \in ValidationProfiles, o \in BOOLEAN :
                    call = Pending("validateUserData", <<d, o>>)
             \/ \E h \in BodyCompHeights, g \in Genders, f \in BodyCompBodyFats,
                   sh \in BodyCompShoulders :
                    call = Pending("calculateBodyCompAdjustedWeight", <<h, g, f, sh>>)
             \/ \E h \in WaistHeights, g \in WaistGenders :
                    call = Pending("calculateIdealWaistSize", <<h, g>>)
             \/ \E g \in SafeMinimumGenders, w \in SafeMinimumWeights :
                    call = Pending("calculateSafeMinimumCalories", <<g, w>>)
             \/ \E goal \in SelectedGoals, e \in BOOLEAN, t \in GoalTargetWeights,
                   d \in GoalProfiles :
                    \E c \in {null, calculateAllResults(d, N(1))} :
                        call = Pending("getCalorieTarget", <<goal, e, t, d, c>>)
    /\ userDataObject =
           IF userData = defaultUserData THEN "defaultUserData" ELSE "copy"

Return(v) ==
    /\ call' = [call EXCEPT !.ret = v]
    /\ UNCHANGED <<userData, proteinPerKg, calculations, targetWeightCalculations,
                   earlier, nCalls>>
    /\ UNCHANGED providerVars

CallCalculateSafeDeficit ==
    /\ IsPending("calculateSafeDeficit")
    /\ Return(calculateSafeDeficit(call.args[1], call.args[2]))

CallEnsureAboveBMR ==
    /\ IsPending("ensureAboveBMR")
    /\ Return(ensureAboveBMR(call.args[1], call.args[2]))

CallCalculateCalorieTargets ==
    /\ IsPending("calculateCalorieTargets")
    /\ Return(calculateCalorieTargets(call.args[1], call.args[2], call.args[3],
                                      call.args[4], call.args[5]))

CallCalculateBMR ==
    /\ IsPending("calculateBMR")
    /\ Return(calculateBMR(call.args[1], call.args[2], call.args[3], call.args[4],
                           call.args[5]))

CallGetBMICategory ==
    /\ IsPending("getBMICategory")
    /\ Return(getBMICategory(call.args[1]))

CallGetWHRCategory ==
    /\ IsPending("getWHRCategory")
    /\ Return(getWHRCategory(call.args[1], call.args[2]))

CallCalculateSafeMinimumCalories ==
    /\ IsPending("calculateSafeMinimumCalories")
    /\ Return(calculateSafeMinimumCalories(call.args[1], call.args[2]))

CallCalculateBodyCompAdjustedWeight ==
    /\ IsPending("calculateBodyCompAdjustedWeight")
    /\ Return(calculateBodyCompAdjustedWeight(call.args[1], call.args[2],
                                              call.args[3], call.args[4]))

CallCalculateIdealWaistSize ==
    /\ IsPending("calculateIdealWaistSize")
    /\ Return(calculateIdealWaistSize(call.args[1], call.args[2]))

CallValidateUserData ==
    /\ IsPending("validateUserData")
    /\ Return(validateUserData(call.args[1], call.args[2]))

CallGetCalorieTarget ==
    /\ IsPending("getCalorieTarget")
    /\ Return(getCalorieTarget(call.args[1], call.args[2], call.args[3],
                               call.args[4], call.args[5]))

\* variant: the weight of an imperial profile is taken to be in pounds, at
\* two pounds to the kilogram
CalculateAllResults_ConvertsByUnit ==
    /\ call = NoCall
    /\ nCalls < MaxCalls
    /\ calculations' =
           [userData |-> userData, proteinPerKg |-> proteinPerKg,
            seq |-> nCalls + 1,
            results |->
                calculateAllResults(
                    IF userData.unitSystem = "imperial"
                    THEN [userData EXCEPT !.weight = Times(@, Q(1, 2))]
                    ELSE userData,
                    proteinPerKg)]
    /\ earlier' = calculations
    /\ nCalls' = nCalls + 1
    /\ UNCHANGED <<userData, proteinPerKg, targetWeightCalculations, call>>
    /\ UNCHANGED providerVars

\* calculateAllResults(userData, proteinPerKg); the arguments are kept beside
\* the result, and the call it replaces is kept in `earlier`
CalculateAllResults ==
    /\ call = NoCall
    /\ nCalls < MaxCalls
    /\ calculations' = [userData |-> userData, proteinPerKg |-> proteinPerKg,
                        seq |-> nCalls + 1,
                        results |-> calculateAllResults(userData, proteinPerKg)]
    /\ earlier' = calculations
    /\ nCalls' = nCalls + 1
    /\ UNCHANGED <<userData, proteinPerKg, targetWeightCalculations, call>>
    /\ UNCHANGED providerVars

\* recalculateWithTargetWeight(userData, w, proteinPerKg); userData becomes
\* the state of the caller's object after the call
RecalculateWithTargetWeight ==
    /\ call = NoCall
    /\ nCalls < MaxCalls
    /\ \E w \in TargetWeights :
          LET r == recalculateWithTargetWeight(userData, w, proteinPerKg)
          IN  /\ targetWeightCalculations' =
                     [userData |-> userData, targetWeightKg |-> w,
                      proteinPerKg |-> proteinPerKg, seq |-> nCalls + 1,
                      results |-> r.results]
              /\ userData' = r.userData
    /\ nCalls' = nCalls + 1
    /\ UNCHANGED <<proteinPerKg, calculations, earlier, call>>
    /\ UNCHANGED providerVars

Next ==
    \/ CallCalculateSafeDeficit
    \/ CallEnsureAboveBMR
    \/ CallCalculateCalorieTargets
    \/ CallCalculateBMR
    \/ CallGetBMICategory
    \/ CallGetWHRCategory
    \/ CallValidateUserData
    \/ CallGetCalorieTarget
    \/ CallCalculateSafeMinimumCalories
    \/ CallCalculateBodyCompAdjustedWeight
    \/ CallCalculateIdealWaistSize
    \/ CalculateAllResults
    \/ RecalculateWithTargetWeight

Spec == Init /\ [][Next]_vars

-----------------------------------------------------------------------------
(* CalculatorProvider.  The state is the useState cells; a handler runs    *)
(* when no effect is waiting, sets its cells and schedules the effects     *)
(* whose dependencies changed; the scheduled effects then run in the order *)
(* of their declaration.  calculations holds a CalculationResults or null. *)
(* A target weight typed in pounds is t / 2.20462 kg, and the results of   *)
(* that weight have numerators beyond the integers of the model checker,   *)
(* so targetWeightCalculations holds the result of                         *)
(* recalculateWithTargetWeight as the call that produces it.               *)

\* the CalculationResults of calculateAllResults(data, protein), unevaluated
Unevaluated(data, protein) == [calculateAllResults |-> <<data, protein>>]

\* recalculateWithTargetWeight, its result left unevaluated
recalculateWithTargetWeightCall(data, targetWeightKg, protein) ==
    LET modifiedUserData == [data EXCEPT !.weight = targetWeightKg]
    IN  Unevaluated(modifiedUserData, protein)

\* userData.age && userData.height && userData.weight
hasBasicData ==
    Truthy(userData.age) /\ Truthy(userData.height) /\ Truthy(userData.weight)

\* the value calculateWithTargetWeight passes to setTargetWeightCalculations
calculateWithTargetWeight ==
    IF hasBasicData /\ targetWeight # <<>> /\ isTargetWeightEnabled
    THEN LET targetWeightKg ==
                 convertTargetWeightToKg(targetWeight, userData.unitSystem)
         IN  recalculateWithTargetWeightCall(userData, targetWeightKg, proteinPerKg)
    ELSE null

\* { ...prevData, ...data, measurements: { ...prevData.measurements,
\*   ...data.measurements } }
mergeUserData(prevData, data) ==
    [f \in DOMAIN prevData \cup DOMAIN data |->
        IF f = "measurements"
        THEN IF "measurements" \in DOMAIN data
             THEN data.measurements @@ prevData.measurements
             ELSE prevData.measurements
        ELSE IF f \in DOMAIN data THEN data[f] ELSE prevData[f]]

\* the Partial<UserData> objects passed to updateUserData
Updates ==
    {[age |-> a] : a \in {undefined, N(0), N(5), N(25)}}
        \cup {[height |-> h] : h \in {N(0), N(170)}}
        \cup {[weight |-> w] : w \in {N(0), N(70), N(300)}}
        \cup {[measurements |-> [waist |-> wa]] : wa \in {undefined, N(29)}}
        \cup {[unitSystem |-> u] : u \in UnitSystems}

ProviderProteinSettings == {Q(8, 10), N(1)}

\* "", "154", "140" and "65.5"
TargetWeightStrings ==
    {<<>>, initialTargetWeight, <<"1", "4", "0">>, <<"6", "5", ".", "5">>}

ProviderInit ==
    /\ userData = defaultUserData
    /\ userDataObject = "defaultUserData"
    /\ proteinPerKg = N(1)
    /\ calculations = null
    /\ targetWeightCalculations = null
    /\ ProviderConstructed
    /\ effects = {"calculate", "mount", "target"}
    /\ earlier = null
    /\ nCalls = 0
    /\ call = NoCall

\* variant: the results are computed only for data that passed validation
EffectCalculate_Gated ==
    /\ "calculate" \in effects
    /\ LET validation == validateUserData(userData, measurementsOptional)
       IN  /\ validationErrors' = validation.errors
           /\ fieldErrors' = validation.fieldErrors
           /\ isDataValid' = validation.isValid
           /\ calculations' =
                  IF hasBasicData /\ validation.isValid
                  THEN calculateAllResults(userData, proteinPerKg)
                  ELSE null
    /\ effects' = effects \ {"calculate"}
    /\ UNCHANGED <<userData, proteinPerKg, targetWeightCalculations,
                   measurementsOptional, targetWeight, isTargetWeightEnabled,
                   userDataObject, resetCalled>>
    /\ UNCHANGED engineVars

\* useEffect(..., [userData, proteinPerKg, measurementsOptional])
EffectCalculate ==
    /\ "calculate" \in effects
    /\ LET validation == validateUserData(userData, measurementsOptional)
       IN  /\ validationErrors' = validation.errors
           /\ fieldErrors' = validation.fieldErrors
           /\ isDataValid' = validation.isValid
           /\ calculations' =
                  IF hasBasicData
                  THEN calculateAllResults(userData, proteinPerKg)
                  ELSE null
    /\ effects' = effects \ {"calculate"}
    /\ UNCHANGED <<userData, proteinPerKg, targetWeightCalculations,
                   measurementsOptional, targetWeight, isTargetWeightEnabled,
                   userDataObject, resetCalled>>
    /\ UNCHANGED engineVars

\* useEffect(..., []): it runs once, after the first render, and the
\* calculations it tests is the null of that render
EffectMount ==
    /\ "mount" \in effects
    /\ "calculate" \notin effects
    /\ LET rendered == null
       IN  calculations' =
               IF hasBasicData /\ rendered = null
               THEN calculateAllResults(userData, proteinPerKg)
               ELSE calculations
    /\ effects' = effects \ {"mount"}
    /\ UNCHANGED <<userData, proteinPerKg, targetWeightCalculations,
                   validationErrors, fieldErrors, isDataValid,
                   measurementsOptional, targetWeight, isTargetWeightEnabled,
                   userDataObject, resetCalled>>
    /\ UNCHANGED engineVars

\* variant: a result that exists is kept, the effect computes only when there
\* is none
EffectTarget_KeepsResult ==
    /\ effects = {"target"}
    /\ targetWeightCalculations' =
           IF isTargetWeightEnabled /\ targetWeight # <<>>
           THEN IF targetWeightCalculations # null
                THEN targetWeightCalculations
                ELSE calculateWithTargetWeight
           ELSE null
    /\ effects' = {}
    /\ UNCHANGED <<userData, proteinPerKg, calculations, validationErrors,
                   fieldErrors, isDataValid, measurementsOptional, targetWeight,
                   isTargetWeightEnabled, userDataObject, resetCalled>>
    /\ UNCHANGED engineVars

\* useEffect(..., [userData, proteinPerKg, targetWeight, isTargetWeightEnabled])
EffectTarget ==
    /\ effects = {"target"}
    /\ targetWeightCalculations' =
           IF isTargetWeightEnabled /\ targetWeight # <<>>
           THEN calculateWithTargetWeight
           ELSE null
    /\ effects' = {}
    /\ UNCHANGED <<userData, proteinPerKg, calculations, validationErrors,
                   fieldErrors, isDataValid, measurementsOptional, targetWeight,
                   isTargetWeightEnabled, userDataObject, resetCalled>>
    /\ UNCHANGED engineVars

\* updateUserData(data): the functional update always builds a new object
UpdateUserData ==
    /\ effects = {}
    /\ \E data \in Updates : userData' = mergeUserData(userData, data)
    /\ userDataObject' = "copy"
    /\ effects' = {"calculate", "target"}
    /\ UNCHANGED <<proteinPerKg, calculations, targetWeightCalculations,
                   validationErrors, fieldErrors, isDataValid,
                   measurementsOptional, targetWeight, isTargetWeightEnabled,
                   resetCalled>>
    /\ UNCHANGED engineVars

SetProteinPerKg ==
    /\ effects = {}
    /\ \E value \in ProviderProteinSettings :
          /\ proteinPerKg' = value
          /\ effects' = IF value # proteinPerKg THEN {"calculate", "target"} ELSE {}
    /\ UNCHANGED <<userData, calculations, targetWeightCalculations,
                   validationErrors, fieldErrors, isDataValid,
                   measurementsOptional, targetWeight, isTargetWeightEnabled,
                   userDataObject, resetCalled>>
    /\ UNCHANGED engineVars

SetMeasurementsOptional ==
    /\ effects = {}
    /\ \E optional \in BOOLEAN :
          /\ measurementsOptional' = optional
          /\ effects' = IF optional # measurementsOptional THEN {"calculate"} ELSE {}
    /\ UNCHANGED <<userData, proteinPerKg, calculations, targetWeightCalculations,
                   validationErrors, fieldErrors, isDataValid, targetWeight,
                   isTargetWeightEnabled, userDataObject, resetCalled>>
    /\ UNCHANGED engineVars

SetTargetWeight ==
    /\ effects = {}
    /\ \E weight \in TargetWeightStrings :
          /\ targetWeight' = weight
          /\ effects' = IF weight # targetWeight THEN {"target"} ELSE {}
    /\ UNCHANGED <<userData, proteinPerKg, calculations, targetWeightCalculations,
                   validationErrors, fieldErrors, isDataValid,
                   measurementsOptional, isTargetWeightEnabled, userDataObject,
                   resetCalled>>
    /\ UNCHANGED engineVars

SetIsTargetWeightEnabled ==
    /\ effects = {}
    /\ \E enabled \in BOOLEAN :
          /\ isTargetWeightEnabled' = enabled
          /\ effects' = IF enabled # isTargetWeightEnabled THEN {"target"} ELSE {}
    /\ UNCHANGED <<userData, proteinPerKg, calculations, targetWeightCalculations,
                   validationErrors, fieldErrors, isDataValid,
                   measurementsOptional, targetWeight, userDataObject, resetCalled>>
    /\ UNCHANGED engineVars

ForceCalculation ==
    /\ effects = {}
    /\ calculations' =
           IF hasBasicData
           THEN calculateAllResults(userData, proteinPerKg)
           ELSE calculations
    /\ UNCHANGED <<userData, proteinPerKg, targetWeightCalculations,
                   validationErrors, fieldErrors, isDataValid,
                   measurementsOptional, targetWeight, isTargetWeightEnabled,
                   userDataObject, effects, resetCalled>>
    /\ UNCHANGED engineVars

\* calculateWithTargetWeight called by a component
CalculateWithTargetWeight ==
    /\ effects = {}
    /\ targetWeightCalculations' = calculateWithTargetWeight
    /\ UNCHANGED <<userData, proteinPerKg, calculations, validationErrors,
                   fieldErrors, isDataValid, measurementsOptional, targetWeight,
                   isTargetWeightEnabled, userDataObject, effects, resetCalled>>
    /\ UNCHANGED engineVars

\* resetData: setUserData(defaultUserData) changes the cell unless it already
\* holds that very object; an effect is scheduled only if one of its
\* dependencies changed
ResetData ==
    /\ effects = {}
    /\ userData' = defaultUserData
    /\ userDataObject' = "defaultUserData"
    /\ proteinPerKg' = N(1)
    /\ calculations' = null
    /\ validationErrors' = <<>>
    /\ fieldErrors' = <<>>
    /\ isDataValid' = TRUE
    /\ measurementsOptional' = TRUE
    /\ targetWeight' = initialTargetWeight
    /\ isTargetWeightEnabled' = TRUE
    /\ targetWeightCalculations' = null
    /\ resetCalled' = TRUE
    /\ LET shared == userDataObject # "defaultUserData" \/ proteinPerKg # N(1)
       IN  effects' =
               {e \in {"calculate"} : shared \/ measurementsOptional # TRUE}
                   \cup {e \in {"target"} :
                            \/ shared
                            \/ targetWeight # initialTargetWeight
                            \/ isTargetWeightEnabled # TRUE}
    /\ UNCHANGED engineVars

ProviderNext ==
    \/ EffectCalculate
    \/ EffectMount
    \/ EffectTarget
    \/ UpdateUserData
    \/ SetProteinPerKg
    \/ SetMeasurementsOptional
    \/ SetTargetWeight
    \/ SetIsTargetWeightEnabled
    \/ ForceCalculation
    \/ CalculateWithTargetWeight
    \/ ResetData

ProviderSpec == ProviderInit /\ [][ProviderNext]_vars

-----------------------------------------------------------------------------
(* Properties.                                                             *)

\* 0.9 * bmr, the BMR floor
BmrFloor(bmr) == Times(Q(9, 10), bmr)

C2_BmrFloor ==
    Done("ensureAboveBMR") =>
        /\ LessEq(BmrFloor(call.args[2]), call.ret)
        /\ LessEq(call.args[1], call.ret)
        /\ call.ret \in {call.args[1], BmrFloor(call.args[2])}

\* the floor raised the calories passed in
C2_Witness ==
    /\ Done("ensureAboveBMR")
    /\ Less(call.args[1], call.ret)

\* the four weight-loss calorie outputs of a result
WeightLossOutputs(r) ==
    {r.calorieTargets.rapidLoss, r.calorieTargets.slowLoss,
     r.goalRecommendations.rapidWeightLossCalories,
     r.goalRecommendations.sustainableWeightLossCalories}

AboveBothGuards(data, r) ==
    \A x \in WeightLossOutputs(r) :
        /\ LessEq(calculateSafeMinimumCalories(data.gender, data.weight), x)
        /\ LessEq(BmrFloor(r.bmr), x)

(* C3: in every result of calculateAllResults each of the four weight-loss *)
(* calorie outputs is at least calculateSafeMinimumCalories(gender,        *)
(* weight) and at least 0.9 * bmr.                                         *)
C3_GuardedOutputs ==
    /\ calculations # null =>
           AboveBothGuards(calculations.userData, calculations.results)
    /\ targetWeightCalculations # null =>
           AboveBothGuards([targetWeightCalculations.userData EXCEPT
                                !.weight = targetWeightCalculations.targetWeightKg],
                           targetWeightCalculations.results)

\* a guard raised the sustainable calories above tdee - 400
C3_Witness ==
    /\ calculations # null
    /\ Less(Minus(calculations.results.tdee, N(400)),
            calculations.results.goalRecommendations.sustainableWeightLossCalories)

(* C4: calculateCalorieTargets returns maintenance = tdee, muscleGain =     *)
(* tdee + 300, rapidLoss = max(max(safeMin, tdee - safeDeficit), 0.9*bmr)   *)
(* and slowLoss = max(max(safeMin, tdee - min(400, 0.8*safeDeficit)),       *)
(* 0.9*bmr): the size/gender minimum first, the BMR floor last.             *)
C4_CalorieTargets ==
    Done("calculateCalorieTargets") =>
        LET tdee == call.args[1]
            bmr == call.args[5]
            safeMin == calculateSafeMinimumCalories(call.args[2], call.args[3])
            safeDeficit == calculateSafeDeficit(call.args[4], tdee)
        IN  call.ret =
                [maintenance |-> tdee,
                 rapidLoss |->
                     MathMax(MathMax(safeMin, Minus(tdee, safeDeficit)), BmrFloor(bmr)),
                 slowLoss |->
                     MathMax(MathMax(safeMin,
                                     Minus(tdee, MathMin(N(400),
                                                         Times(Q(8, 10), safeDeficit)))),
                             BmrFloor(bmr)),
                 muscleGain |-> Plus(tdee, N(300))]

\* the BMR floor, applied last, decided slowLoss
C4_Witness ==
    /\ Done("calculateCalorieTargets")
    /\ call.ret.slowLoss = BmrFloor(call.args[5])
    /\ Less(calculateSafeMinimumCalories(call.args[2], call.args[3]), call.ret.slowLoss)
    /\ Less(Minus(call.args[1], N(400)), call.ret.slowLoss)

(* C5: recalculateWithTargetWeight(p, w, k) returns exactly the result of   *)
(* calculateAllResults on p with only its weight replaced by w (and the     *)
(* same k), and the profile p passed in is left unchanged.                  *)
C5_TargetWeightOverride ==
    targetWeightCalculations # null =>
        /\ targetWeightCalculations.results =
               calculateAllResults(
                   [targetWeightCalculations.userData EXCEPT
                        !.weight = targetWeightCalculations.targetWeightKg],
                   targetWeightCalculations.proteinPerKg)
        /\ userData = targetWeightCalculations.userData

\* the 80 kg profile recalculated at 65 kg: the result is that of 65 kg, the
\* profile still weighs 80 kg
C5_Witness ==
    /\ targetWeightCalculations # null
    /\ targetWeightCalculations.userData.weight = N(80)
    /\ targetWeightCalculations.targetWeightKg = N(65)
    /\ targetWeightCalculations.results.waterWeightFluctuation = Q(975, 1000)
    /\ userData.weight = N(80)

BmiLabels ==
    <<"Underweight", "Normal weight", "Overweight", "Obese I", "Obese II",
      "Obese III">>

\* the index of the half-open range holding b; 5 when no range holds it
ExpectedBmiIndex(b) ==
    IF Less(b, N(0)) THEN 5
    ELSE IF Less(b, Q(185, 10)) THEN 0
    ELSE IF Less(b, N(25)) THEN 1
    ELSE IF Less(b, N(30)) THEN 2
    ELSE IF Less(b, N(35)) THEN 3
    ELSE IF Less(b, N(40)) THEN 4
    ELSE 5

(* C8: getBMICategory maps a BMI to the category whose half-open range      *)
(* [min, max) holds it (18.5 is Normal weight, index 1; 25 is Overweight,   *)
(* index 2); a value no range holds gets the last category, Obese III,      *)
(* index 5; the index is always in 0..5.                                    *)
C8_BmiCategory ==
    Done("getBMICategory") =>
        /\ call.ret.categoryIndex = ExpectedBmiIndex(call.args[1])
        /\ call.ret.categoryIndex \in 0..5
        /\ call.ret.category = BmiLabels[call.ret.categoryIndex + 1]
        /\ call.args[1] = Q(185, 10) =>
               call.ret = [category |-> "Normal weight", categoryIndex |-> 1]
        /\ call.args[1] = N(25) =>
               call.ret = [category |-> "Overweight", categoryIndex |-> 2]
        /\ LessEq(N(100), call.args[1]) =>
               call.ret = [category |-> "Obese III", categoryIndex |-> 5]

\* a BMI of 100 is in no range and fell back to Obese III
C8_Witness ==
    /\ Done("getBMICategory")
    /\ call.args[1] = N(100)
    /\ call.ret = [category |-> "Obese III", categoryIndex |-> 5]

(* C9 as stated: the whr field of a calculateAllResults result is present   *)
(* if and only if both waist and hips are supplied (not undefined).         *)
C9_Original ==
    calculations # null =>
        LET m == calculations.userData.measurements
        IN  (calculations.results.whr # undefined)
                <=> (m.waist # undefined /\ m.hips # undefined)

(* C9 amended: the whr field is present if and only if both waist and hips  *)
(* are supplied and non-zero; when present it holds the number waist / hips *)
(* (never NaN or zero), when absent it is undefined.                        *)
C9_WhrPresence ==
    calculations # null =>
        LET m == calculations.userData.measurements
            whr == calculations.results.whr
        IN  /\ (whr # undefined)
                   <=> /\ m.waist # undefined /\ m.waist # N(0)
                       /\ m.hips # undefined /\ m.hips # N(0)
            /\ whr # undefined =>
                   /\ DOMAIN whr.value = {"n", "d"}
                   /\ whr.value.d > 0
                   /\ whr.value # N(0)
                   /\ whr.value = Over(m.waist, m.hips)

\* a waist of 0 with hips of 100: both supplied, whr absent
C9_Witness ==
    /\ calculations # null
    /\ calculations.userData.measurements.waist = N(0)
    /\ calculations.userData.measurements.hips = N(100)
    /\ calculations.results.whr = undefined

WhrLabels ==
    <<"Peripheral Body Type", "Balanced Character Type", "Central Character Type",
      "Risky Character Type">>

\* the band of a ratio, by inclusive upper bounds
ExpectedWhrIndex(r) ==
    IF LessEq(r, Q(85, 100)) THEN 0
    ELSE IF LessEq(r, Q(90, 100)) THEN 1
    ELSE IF LessEq(r, Q(94, 100)) THEN 2
    ELSE 3

(* C10: getWHRCategory classifies a ratio by inclusive upper bounds,        *)
(* whatever the gender: <= 0.85 Peripheral (0), <= 0.90 Balanced (1),       *)
(* <= 0.94 Central (2), else Risky (3); the image index is the band's.      *)
C10_WhrCategory ==
    Done("getWHRCategory") =>
        /\ call.ret.imageIndex = ExpectedWhrIndex(call.args[1])
        /\ call.ret.category = WhrLabels[call.ret.imageIndex + 1]

\* the ratio 0.85 itself is still Peripheral, here for a female
C10_Witness ==
    /\ Done("getWHRCategory")
    /\ call.args = <<Q(85, 100), "female">>
    /\ call.ret.imageIndex = 0
    /\ call.ret.category = "Peripheral Body Type"

\* the inclusive range of each validated field
FieldRanges ==
    [age |-> <<N(10), N(120)>>, weight |-> <<N(10), N(227)>>,
     height |-> <<N(50), N(250)>>, bodyFat |-> <<N(5), N(45)>>,
     waist |-> <<N(30), N(200)>>, hips |-> <<N(40), N(220)>>,
     neck |-> <<N(20), N(60)>>, shoulders |-> <<N(30), N(130)>>]

BodyFields == {"age", "weight", "height", "bodyFat"}

CircumferenceFields == {"waist", "hips", "neck", "shoulders"}

\* the value of a validated field of a profile
FieldValue(data, f) ==
    IF f \in CircumferenceFields THEN data.measurements[f] ELSE data[f]

\* the field is defined and lies outside its inclusive range
FieldFails(data, f) ==
    /\ FieldValue(data, f) # undefined
    /\ ~ ( /\ LessEq(FieldRanges[f][1], FieldValue(data, f))
           /\ LessEq(FieldValue(data, f), FieldRanges[f][2]) )

Range(seq) == {seq[i] : i \in 1..Len(seq)}

(* C12: in validateUserData isValid is true iff errors is empty; the        *)
(* message of a failed age, weight, height or bodyFat always enters errors, *)
(* the message of a failed circumference enters errors only when            *)
(* measurementsOptional is true; fieldErrors is the same for both values of *)
(* the flag.                                                                *)
C12_ErrorsAndFlag ==
    Done("validateUserData") =>
        LET data == call.args[1]
            flag == call.args[2]
            ret == call.ret
            other == validateUserData(data, ~flag)
        IN  /\ ret.isValid <=> (ret.errors = <<>>)
            /\ \A f \in BodyFields :
                   FieldFails(data, f) =>
                       /\ f \in DOMAIN ret.fieldErrors
                       /\ ret.fieldErrors[f] \in Range(ret.errors)
            /\ \A f \in CircumferenceFields :
                   FieldFails(data, f) =>
                       /\ f \in DOMAIN ret.fieldErrors
                       /\ (ret.fieldErrors[f] \in Range(ret.errors)) <=> flag
            /\ Range(ret.errors) \subseteq
                   {ret.fieldErrors[f] : f \in DOMAIN ret.fieldErrors}
            /\ other.fieldErrors = ret.fieldErrors

\* with the flag false a waist of 29 is reported in fieldErrors only and the
\* data is valid; with the flag true the same data is invalid
C12_Witness ==
    /\ Done("validateUserData")
    /\ call.args[2] = FALSE
    /\ call.args[1].measurements.waist = N(29)
    /\ "waist" \in DOMAIN call.ret.fieldErrors
    /\ call.ret.isValid
    /\ call.ret.errors = <<>>
    /\ ~validateUserData(call.args[1], TRUE).isValid

(* C13: validation is advisory: in CalculatorProvider, after any sequence   *)
(* of updateUserData, setProteinPerKg and setMeasurementsOptional calls     *)
(* (and of any other handler but resetData) and once the effects have run,  *)
(* calculations is non-null exactly when age, height and weight are all     *)
(* truthy, whether isDataValid is true or false; isDataValid is then the    *)
(* verdict of validateUserData on the current data.                         *)
C13_AdvisoryValidation ==
    (effects = {} /\ ~resetCalled) =>
        /\ (calculations # null) <=> hasBasicData
        /\ isDataValid = validateUserData(userData, measurementsOptional).isValid
        /\ calculations # null =>
               calculations = calculateAllResults(userData, proteinPerKg)

\* an age of 5 fails validation and the results are there all the same
C13_Witness ==
    /\ effects = {}
    /\ ~resetCalled
    /\ userData.age = N(5)
    /\ ~isDataValid
    /\ "age" \in DOMAIN fieldErrors
    /\ calculations # null
    /\ calculations.bmr = calculateBMR("female", N(70), N(170), N(5), undefined)

\* the profile with the other unit system
OtherUnitSystem(data) ==
    [data EXCEPT !.unitSystem = IF @ = "metric" THEN "imperial" ELSE "metric"]

(* C14: unitSystem is display-only: the result of calculateAllResults for a *)
(* profile is the result for the profile that differs from it only in       *)
(* unitSystem, and a calculation leaves the stored profile as it was.       *)
C14_UnitSystemDisplayOnly ==
    /\ calculations # null =>
           /\ calculations.results =
                  calculateAllResults(OtherUnitSystem(calculations.userData),
                                      calculations.proteinPerKg)
           /\ userData = calculations.userData
    /\ targetWeightCalculations # null =>
           /\ targetWeightCalculations.results =
                  calculateAllResults(
                      OtherUnitSystem(
                          [targetWeightCalculations.userData EXCEPT
                               !.weight = targetWeightCalculations.targetWeightKg]),
                      targetWeightCalculations.proteinPerKg)
           /\ userData = targetWeightCalculations.userData

\* an imperial profile of 80 kg and 180 cm: its BMI is 80 / 1.8^2, computed
\* from the metric values, and the profile still holds 80 and 180
C14_Witness ==
    /\ calculations # null
    /\ calculations.userData.unitSystem = "imperial"
    /\ calculations.userData.measurements.waist = N(80)
    /\ calculations.results.bmi.value = Q(2000, 81)
    /\ calculations.results.goalRecommendations.idealWaistSize = N(90)
    /\ userData.weight = N(80)
    /\ userData.height = N(180)

(* C15: calculateSafeMinimumCalories(gender, weight) is                     *)
(* max(base + max(0, (weight - 70) * 5), floor) with base 1500 and floor    *)
(* 1400 for male, base 1200 and floor 1100 for female: the base up to       *)
(* 70 kg, and 5 calories more for each kg above 70.                         *)
C15_SafeMinimum ==
    Done("calculateSafeMinimumCalories") =>
        LET gender == call.args[1]
            weight == call.args[2]
            base == IF gender = "male" THEN 1500 ELSE 1200
            floor == IF gender = "male" THEN 1400 ELSE 1100
            above == Minus(Times(N(5), weight), N(350))
            sizeAdjustment == IF Less(N(0), above) THEN above ELSE N(0)
            sum == Plus(N(base), sizeAdjustment)
        IN  /\ call.ret = (IF Less(sum, N(floor)) THEN N(floor) ELSE sum)
            /\ LessEq(weight, N(70)) => call.ret = N(base)
            /\ Less(N(70), weight) => call.ret = Plus(N(base - 350), Times(N(5), weight))

\* a male of 90 kg: 1500 + 20 * 5
C15_Witness ==
    /\ Done("calculateSafeMinimumCalories")
    /\ call.args = <<"male", N(90)>>
    /\ call.ret = N(1600)

\* x limited to [lo, hi]
Clamp(x, lo, hi) == IF Less(x, lo) THEN lo ELSE IF Less(hi, x) THEN hi ELSE x

(* C16: for every height, gender, body fat and shoulder width the target of *)
(* calculateBodyCompAdjustedWeight has a BMI (target / heightM^2) in        *)
(* [18.5, 28]; lower and upper are 1.5 * heightM^2 kg below and above the   *)
(* target; the shoulder-width adjustment enters for male only.              *)
C16_BodyCompRange ==
    Done("calculateBodyCompAdjustedWeight") =>
        LET height == call.args[1]
            gender == call.args[2]
            bodyFat == call.args[3]
            shoulders == call.args[4]
            sq == Over(Times(height, height), N(10000))
            bmi == Over(call.ret.target, sq)
            fromBodyFat ==
                IF bodyFat = undefined THEN N(0)
                ELSE Over(Minus(IF gender = "male" THEN N(15) ELSE N(23), bodyFat),
                          N(10))
            fromShoulders ==
                IF shoulders = undefined \/ gender # "male" THEN N(0)
                ELSE Minus(Over(Times(N(10), shoulders), height), Q(26, 10))
            base == IF gender = "male" THEN Q(225, 10) ELSE Q(215, 10)
        IN  /\ LessEq(Q(185, 10), bmi)
            /\ LessEq(bmi, N(28))
            /\ call.ret.lower = Minus(call.ret.target, Times(Q(15, 10), sq))
            /\ call.ret.upper = Plus(call.ret.target, Times(Q(15, 10), sq))
            /\ bmi = Clamp(Plus(Plus(base, fromBodyFat), fromShoulders),
                           Q(185, 10), N(28))

\* a male of 150 cm with shoulders of 130 cm: 22.5 + (130/150 - 0.26) * 10
\* is above 28 and the target is 28 * 1.5^2 = 63 kg, with 59.625 and 66.375
\* around it
C16_Witness ==
    /\ Done("calculateBodyCompAdjustedWeight")
    /\ call.args = <<N(150), "male", undefined, N(130)>>
    /\ call.ret = [lower |-> Q(59625, 1000), upper |-> Q(66375, 1000),
                   target |-> N(63)]

Below(r, calories) == Minus(r.tdee, calories)

(* C18 as stated: the daily calorie deficit used for the weight-loss        *)
(* recommendations never exceeds 500 calories: calculateSafeDeficit returns *)
(* at most 500 for every bmi and tdee, and no result recommends more than   *)
(* 500 calories below maintenance.                                          *)
C18_MaxDeficit500 ==
    /\ Done("calculateSafeDeficit") => LessEq(call.ret, N(500))
    /\ calculations # null =>
           LessEq(Below(calculations.results,
                        calculations.results.goalRecommendations.rapidWeightLossCalories),
                  N(500))

\* the calories max(max(safeMin, tdee - deficit), 0.9 * bmr) of a profile
GuardedCalories(data, r, deficit) ==
    MathMax(MathMax(calculateSafeMinimumCalories(data.gender, data.weight),
                    Minus(r.tdee, deficit)),
            BmrFloor(r.bmr))

\* C19 as stated, for one result
SustainableIs400Below(r) ==
    /\ r.goalRecommendations.sustainableWeightLossCalories = Minus(r.tdee, N(400))
    /\ LessEq(N(400), Below(r, r.goalRecommendations.rapidWeightLossCalories))
    /\ LessEq(Below(r, r.goalRecommendations.rapidWeightLossCalories), N(700))

GoalCaloriesOf(data, r) ==
    LET g == r.goalRecommendations
        safeDeficit == calculateSafeDeficit(r.bmi.value, r.tdee)
        safeMin == calculateSafeMinimumCalories(data.gender, data.weight)
        unguarded(deficit) ==
            /\ LessEq(safeMin, Minus(r.tdee, deficit))
            /\ LessEq(BmrFloor(r.bmr), Minus(r.tdee, deficit))
    IN  /\ g.sustainableWeightLossCalories = GuardedCalories(data, r, N(400))
        /\ g.rapidWeightLossCalories = GuardedCalories(data, r, safeDeficit)
        /\ LessEq(Below(r, g.sustainableWeightLossCalories), N(400))
        /\ LessEq(Below(r, g.rapidWeightLossCalories), safeDeficit)
        /\ LessEq(N(500), safeDeficit) /\ LessEq(safeDeficit, N(1000))
        /\ unguarded(N(400)) =>
               g.sustainableWeightLossCalories = Minus(r.tdee, N(400))
        /\ unguarded(safeDeficit) =>
               g.rapidWeightLossCalories = Minus(r.tdee, safeDeficit)
        /\ LessEq(g.rapidWeightLossCalories, g.sustainableWeightLossCalories)

SameChain(r) ==
    /\ r.goalRecommendations.rapidWeightLossCalories = r.calorieTargets.rapidLoss
    /\ r.goalRecommendations.sustainableWeightLossCalories = r.calorieTargets.slowLoss

(* C20: in every result of calculateAllResults                              *)
(* goalRecommendations.rapidWeightLossCalories equals                       *)
(* calorieTargets.rapidLoss and                                             *)
(* goalRecommendations.sustainableWeightLossCalories equals                 *)
(* calorieTargets.slowLoss.                                                 *)
C20_SameSafetyChain ==
    /\ calculations # null => SameChain(calculations.results)
    /\ targetWeightCalculations # null => SameChain(targetWeightCalculations.results)

\* a result where the BMR floor decides the rapid calories on both paths
C20_Witness ==
    /\ calculations # null
    /\ calculations.results.calorieTargets.rapidLoss = BmrFloor(calculations.results.bmr)
    /\ calculations.results.goalRecommendations.rapidWeightLossCalories
           = BmrFloor(calculations.results.bmr)
    /\ Less(calculateSafeMinimumCalories(calculations.userData.gender,
                                         calculations.userData.weight),
            BmrFloor(calculations.results.bmr))
    /\ Less(Minus(calculations.results.tdee,
                  calculateSafeDeficit(calculations.results.bmi.value,
                                       calculations.results.tdee)),
            BmrFloor(calculations.results.bmr))

\* C21 for the result r: 7700 * loss = 7 * deficit for both fields
WeeklyFatLossPerKg(r) ==
    LET g == r.goalRecommendations
        safeDeficit == calculateSafeDeficit(r.bmi.value, r.tdee)
        scaled == Times(Q(8, 10), safeDeficit)
        sustainableDeficit == IF Less(scaled, N(400)) THEN scaled ELSE N(400)
    IN  /\ Times(N(7700), g.maxWeeklyFatLoss) = Times(N(7), safeDeficit)
        /\ Times(N(7700), g.sustainableWeeklyFatLoss) = Times(N(7), sustainableDeficit)
        /\ Times(N(3500), g.maxWeeklyFatLoss) # Times(N(7), safeDeficit)
        /\ Times(N(3500), g.sustainableWeeklyFatLoss) # Times(N(7), sustainableDeficit)

(* C21: in every result goalRecommendations.maxWeeklyFatLoss is             *)
(* safeDeficit * 7 / 7700 and goalRecommendations.sustainableWeeklyFatLoss  *)
(* is min(400, 0.8 * safeDeficit) * 7 / 7700, with safeDeficit =            *)
(* calculateSafeDeficit(bmi, tdee) of the same profile; neither is the      *)
(* value the 3500 constant would give.                                      *)
C21_WeeklyFatLossPerKg ==
    /\ calculations # null => WeeklyFatLossPerKg(calculations.results)
    /\ targetWeightCalculations # null =>
           WeeklyFatLossPerKg(targetWeightCalculations.results)

\* a safe deficit of 1000 gives 10/11 kg a week at most, 4/11 kg sustainably
C21_Witness ==
    /\ calculations # null
    /\ calculateSafeDeficit(calculations.results.bmi.value,
                            calculations.results.tdee) = N(1000)
    /\ calculations.results.goalRecommendations.maxWeeklyFatLoss = Q(10, 11)
    /\ calculations.results.goalRecommendations.sustainableWeeklyFatLoss = Q(4, 11)

(* C22 as stated: on the goal page the calorie target computed for the      *)
(* lose-weight goal (getCalorieTarget) is never below the user's BMR, for   *)
(* every profile and every target weight, below, equal to or above the      *)
(* current weight.                                                          *)
C22_TargetAboveBmr ==
    (Done("getCalorieTarget") /\ call.args[1] = "lose-weight"
        /\ call.args[5] # null)
    => LessEq(call.args[5].bmr, call.ret)

\* C23 for the result r
SustainableDeficitIs400(r) ==
    /\ MathMin(N(400), Times(calculateSafeDeficit(r.bmi.value, r.tdee), Q(8, 10)))
           = N(400)
    /\ r.goalRecommendations.sustainableWeeklyFatLoss = Q(4, 11)
    /\ LessEq(r.calorieTargets.rapidLoss, r.calorieTargets.slowLoss)

FixedWeeklyFatLoss == [rapid |-> Q(14, 10), slow |-> Q(8, 10)]

(* C24: the weeklyFatLoss field of every calculateAllResults result is the  *)
(* same pair, rapid = 700 * 7 / 3500 and slow = 400 * 7 / 3500, whatever    *)
(* the profile, its safe deficit, tdee, bmi or weight.                      *)
C24_FixedWeeklyFatLoss ==
    /\ calculations # null => calculations.results.weeklyFatLoss = FixedWeeklyFatLoss
    /\ earlier # null => earlier.results.weeklyFatLoss = FixedWeeklyFatLoss
    /\ targetWeightCalculations # null =>
           targetWeightCalculations.results.weeklyFatLoss = FixedWeeklyFatLoss

\* a profile whose safe deficit is 1000, not 700, and the result of another
\* weight beside it: both hold 1.4 and 0.8
C24_Witness ==
    /\ calculations # null
    /\ targetWeightCalculations # null
    /\ calculateSafeDeficit(calculations.results.bmi.value,
                            calculations.results.tdee) = N(1000)
    /\ targetWeightCalculations.results.tdee # calculations.results.tdee
    /\ calculations.results.weeklyFatLoss.rapid = Q(7, 5)
    /\ targetWeightCalculations.results.weeklyFatLoss.slow = Q(4, 5)

\* C25 for the result r of the profile data
BestTargetIsBodyComp(data, r) ==
    /\ r.bodyCompAdjustedWeight # undefined
    /\ r.goalRecommendations.bestTargetWeight = r.bodyCompAdjustedWeight.target
    /\ (data.bodyFat = undefined /\ data.measurements.shoulders = undefined) =>
           /\ r.goalRecommendations.bestTargetWeight =
                  Over(Times(IF data.gender = "male" THEN Q(225, 10) ELSE Q(215, 10),
                             Times(data.height, data.height)),
                       N(10000))
           /\ r.goalRecommendations.bestTargetWeight # r.idealWeightRange.target

(* C25: in every result of calculateAllResults                              *)
(* goalRecommendations.bestTargetWeight equals                              *)
(* bodyCompAdjustedWeight.target, also when body fat and shoulder width are *)
(* absent: the body-comp range is always computed (it is then the base BMI  *)
(* 22.5 or 21.5 times the squared height), and the ideal-weight target is   *)
(* not what the orchestrator returns.                                       *)
C25_BestTargetWeight ==
    /\ calculations # null =>
           BestTargetIsBodyComp(calculations.userData, calculations.results)
    /\ targetWeightCalculations # null =>
           BestTargetIsBodyComp(targetWeightCalculations.userData,
                                targetWeightCalculations.results)

\* a male of 180 cm without body fat and shoulders: 22.5 * 1.8^2 = 72.9 kg,
\* while the ideal-weight target is 22 * 1.8^2 = 71.28 kg
C25_Witness ==
    /\ calculations # null
    /\ calculations.userData.bodyFat = undefined
    /\ calculations.userData.measurements.shoulders = undefined
    /\ calculations.results.goalRecommendations.bestTargetWeight = Q(729, 10)
    /\ calculations.results.idealWeightRange.target = Q(7128, 100)

\* C26 for the result r computed with the protein setting protein
ProteinPerPound(r, protein) ==
    LET best == r.goalRecommendations.bestTargetWeight
        perKg == Times(protein, best)
    IN  /\ r.goalRecommendations.proteinIntakeForTarget
               = Times(Q(110231, 50000), perKg)
        /\ r.goalRecommendations.proteinIntakeForTarget # perKg
        /\ r.proteinIntake = Times(protein, r.idealWeightRange.target)

(* C26: calculateAllResults always computes                                 *)
(* goalRecommendations.proteinIntakeForTarget on the per-pound path,        *)
(* bestTargetWeight * 2.20462 * proteinPerKg, for every profile and unit    *)
(* system, never on the per-kg path; the legacy proteinIntake field is      *)
(* idealWeightRange.target * proteinPerKg, without a pound conversion.      *)
C26_ProteinPerPound ==
    /\ calculations # null =>
           ProteinPerPound(calculations.results, calculations.proteinPerKg)
    /\ targetWeightCalculations # null =>
           ProteinPerPound(targetWeightCalculations.results,
                           targetWeightCalculations.proteinPerKg)

\* a metric male of 180 cm at 0.8: 72.9 * 2.20462 * 0.8 = 128.5734384 for
\* the target, 71.28 * 0.8 = 57.024 for the legacy field
C26_Witness ==
    /\ calculations # null
    /\ calculations.userData.unitSystem = "metric"
    /\ calculations.proteinPerKg = Q(8, 10)
    /\ calculations.results.goalRecommendations.bestTargetWeight = Q(729, 10)
    /\ calculations.results.goalRecommendations.proteinIntakeForTarget
           = Q(80358399, 625000)
    /\ calculations.results.proteinIntake = Q(57024, 1000)

C28_FloorsNeverBind ==
    Done("calculateSafeMinimumCalories") =>
        LET gender == call.args[1]
            weight == call.args[2]
        IN  /\ gender = "male" =>
                   LessEq(N(1500), call.ret) /\ Less(N(1400), call.ret)
            /\ gender # "male" =>
                   /\ LessEq(N(1200), call.ret) /\ Less(N(1100), call.ret)
                   /\ call.ret = calculateSafeMinimumCalories("female", weight)
            /\ LessEq(weight, N(70)) =>
                   call.ret \in {N(1500), N(1200)}

\* a weight of -20 kg with a gender that is neither male nor female: 1200
C28_Witness ==
    /\ Done("calculateSafeMinimumCalories")
    /\ call.args = <<"other", N(-20)>>
    /\ call.ret = N(1200)

\* the Katch-McArdle value 370 + 21.6 * weight * (1 - bodyFat / 100)
KatchMcArdle(weight, bodyFat) ==
    Plus(N(370), Over(Times(Times(N(216), weight), Minus(N(100), bodyFat)), N(1000)))

\* the BMI of a body-comp target for the height of the profile
TargetBmi(data, r) ==
    Over(Times(r.bodyCompAdjustedWeight.target, N(10000)),
         Times(data.height, data.height))

\* the BMI calculateBodyCompAdjustedWeight aims at with the body-fat
\* adjustment applied for the body fat fat, or without it
AdjustedBmi(data, fat, applied) ==
    LET base == IF data.gender = "male" THEN Q(225, 10) ELSE Q(215, 10)
        optimal == IF data.gender = "male" THEN N(15) ELSE N(23)
        fromBodyFat == IF applied THEN Over(Minus(optimal, fat), N(10)) ELSE N(0)
        shoulders == data.measurements.shoulders
        fromShoulders ==
            IF shoulders = undefined \/ data.gender # "male" THEN N(0)
            ELSE Minus(Over(Times(N(10), shoulders), data.height), Q(26, 10))
    IN  Clamp(Plus(Plus(base, fromBodyFat), fromShoulders), Q(185, 10), N(28))

\* C29 for the result r of the profile data
BodyFatPresence(data, r) ==
    LET mifflin == calculateBMR(data.gender, data.weight, data.height, data.age,
                                undefined)
    IN  /\ data.bodyFat = undefined =>
               /\ r.bmr = mifflin
               /\ TargetBmi(data, r) = AdjustedBmi(data, N(0), FALSE)
        /\ (data.bodyFat # undefined /\ Less(N(0), data.bodyFat)) =>
               /\ r.bmr = KatchMcArdle(data.weight, data.bodyFat)
               /\ TargetBmi(data, r) = AdjustedBmi(data, data.bodyFat, TRUE)
        /\ data.bodyFat = N(0) =>
               /\ r.bmr = mifflin
               /\ r.bmr # KatchMcArdle(data.weight, N(0))
               /\ TargetBmi(data, r) = AdjustedBmi(data, N(0), TRUE)
               /\ TargetBmi(data, r) # AdjustedBmi(data, N(0), FALSE)

(* C29: a body fat of 0 is treated inconsistently inside one                *)
(* calculateAllResults call: calculateBMR takes it as absent (the result's  *)
(* bmr is the Mifflin-St Jeor value) while calculateBodyCompAdjustedWeight  *)
(* takes it as present and adds -(0 - optimalBF) * 0.1 to the base BMI;     *)
(* when body fat is undefined both take it as absent, when it is > 0 both   *)
(* take it as present.                                                      *)
C29_BodyFatZero ==
    /\ calculations # null =>
           BodyFatPresence(calculations.userData, calculations.results)
    /\ targetWeightCalculations # null =>
           BodyFatPresence([targetWeightCalculations.userData EXCEPT
                                !.weight = targetWeightCalculations.targetWeightKg],
                           targetWeightCalculations.results)

\* a male of 30 years, 180 cm and 80 kg with a body fat of 0: the bmr is the
\* Mifflin-St Jeor 1853.632, not 370 + 21.6 * 80, and the target is
\* (22.5 + 1.5) * 1.8^2 = 77.76 kg, not 22.5 * 1.8^2
C29_Witness ==
    /\ calculations # null
    /\ calculations.userData.bodyFat = N(0)
    /\ calculations.results.bmr = Q(1853632, 1000)
    /\ calculations.results.bodyCompAdjustedWeight.target = Q(7776, 100)

\* the number a target weight string of the provider stands for
TargetWeightNumber ==
    IF targetWeight = <<"1", "5", "4">> THEN N(154)
    ELSE IF targetWeight = <<"1", "4", "0">> THEN N(140)
    ELSE Q(655, 10)

\* the target weight of the current state in kg
CurrentTargetWeightKg ==
    IF userData.unitSystem = "imperial"
    THEN Over(Times(TargetWeightNumber, N(100000)), N(220462))
    ELSE TargetWeightNumber

(* C30: in CalculatorProvider, after any sequence of setTargetWeight,       *)
(* setIsTargetWeightEnabled, updateUserData, setProteinPerKg and resetData  *)
(* calls (and of the other handlers) and once the effects have run,         *)
(* targetWeightCalculations is non-null only if isTargetWeightEnabled is    *)
(* true, targetWeight is a non-empty string and age, height and weight are  *)
(* all truthy; when non-null it is the result of                            *)
(* recalculateWithTargetWeight for the current userData, the current        *)
(* targetWeight converted to kg by the current unit system, and the current *)
(* proteinPerKg, never the result of an earlier state.                      *)
C30_TargetWeightCurrent ==
    (effects = {} /\ targetWeightCalculations # null) =>
        /\ isTargetWeightEnabled
        /\ targetWeight # <<>>
        /\ Truthy(userData.age) /\ Truthy(userData.height) /\ Truthy(userData.weight)
        /\ targetWeightCalculations =
               [calculateAllResults |->
                    <<[userData EXCEPT !.weight = CurrentTargetWeightKg],
                      proteinPerKg>>]

\* after a reset, with the unit system switched to metric, a protein setting
\* of 0.8 and a target weight of "65.5": the result is that of 65.5 kg at 0.8
C30_Witness ==
    /\ effects = {}
    /\ resetCalled
    /\ userData.unitSystem = "metric"
    /\ proteinPerKg = Q(8, 10)
    /\ targetWeight = <<"6", "5", ".", "5">>
    /\ targetWeightCalculations # null
    /\ targetWeightCalculations.calculateAllResults[1].weight = Q(131, 2)
    /\ targetWeightCalculations.calculateAllResults[2] = Q(8, 10)
    /\ userData.weight = N(70)

====
